---- MODULE Spec2Model ----
(***************************************************************************)
(* Virtual Event Management Platform: the record stores (UserStore,        *)
(* EventStore), their JSON snapshot files, and the request handlers that   *)
(* call them.                                                              *)
(*                                                                         *)
(* Representation of JavaScript values:                                    *)
(*   - a Date is [kind |-> "Date", ms |-> n]; the ISO string that          *)
(*     JSON.stringify writes for it is [kind |-> "string", ms |-> n];      *)
(*   - null in a numeric field is NullInt; an absent (undefined) field of  *)
(*     an input object is a field that is not in the record's DOMAIN;      *)
(*   - uuids are fresh numbers drawn from a counter.                       *)
(***************************************************************************)
EXTENDS Integers, Sequences, FiniteSets, TLC

VARIABLES
  events,        \* EventStore.events: sequence of Event objects
  eventsFile,    \* data/events.json
  nextEventId,   \* source of fresh event uuids
  users,         \* UserStore.users: sequence of User objects
  usersFile,     \* data/users.json
  nextUserId,    \* source of fresh user uuids
  creating,      \* UserStore.create calls suspended at `await user.hashPassword()`
  issued,        \* the tokens that login has handed out
  reqs,          \* POST /events/:id/register requests received by the server
  response,      \* the last HTTP response sent
  now,           \* the wall clock read by new Date()
  result         \* what the caller of the last Store operation observed

eventVars == <<events, eventsFile, nextEventId>>
userVars == <<users, usersFile, nextUserId, creating>>
httpVars == <<issued, reqs, response>>
vars == <<events, eventsFile, nextEventId, users, usersFile, nextUserId, creating,
          issued, reqs, response, now, result>>

(***************************************************************************)
(* Bounds of the model.                                                    *)
(***************************************************************************)
MaxEvents == 1      \* events ever created
MaxCap == 1         \* largest maxParticipants given to create / update
MaxUsers == 2       \* users ever created
MaxTokens == 2      \* tokens ever issued

\* The instants the wall clock shows.
Instants == {0, 1}

NullInt == -1

UserIds == {"u1", "u2", "u3"}
OrganizerIds == {"u1"}
\* the users that call update and delete: the organizer and another user
CallerIds == {"u1", "u2"}

(***************************************************************************)
(* Generic helpers for JavaScript arrays and objects.                      *)
(***************************************************************************)
Has(obj, f) == f \in DOMAIN obj

Includes(arr, x) == \E i \in 1..Len(arr) : arr[i] = x

\* Array.prototype.indexOf / findIndex, 1-based; 0 when there is no match.
IndexOf(arr, x) ==
  IF Includes(arr, x)
    THEN CHOOSE i \in 1..Len(arr) : arr[i] = x /\ \A j \in 1..(i - 1) : arr[j] # x
    ELSE 0

FindIndexById(arr, id) ==
  IF \E i \in 1..Len(arr) : arr[i].id = id
    THEN CHOOSE i \in 1..Len(arr) : arr[i].id = id /\ \A j \in 1..(i - 1) : arr[j].id # id
    ELSE 0

\* arr.splice(i, 1)
Splice1(arr, i) == SubSeq(arr, 1, i - 1) \o SubSeq(arr, i + 1, Len(arr))

ReplaceAt(arr, i, v) == [arr EXCEPT ![i] = v]

(***************************************************************************)
(* Dates.                                                                  *)
(***************************************************************************)
DateOf(ms) == [kind |-> "Date", ms |-> ms]

\* new Date(x) for x a Date or an ISO string
NewDate(x) == [kind |-> "Date", ms |-> x.ms]

\* Date.prototype.toJSON (toISOString), as called by JSON.stringify
DateToJSON(d) == [kind |-> "string", ms |-> d.ms]

Now == DateOf(now)

(***************************************************************************)
(* Event (src/unnamed/part_005, models/Event.js)                           *)
(***************************************************************************)
TruthyInt(n) == n # NullInt /\ n # 0

\* Event.constructor
NewEvent(eventData, organizerId, id) ==
  [ id              |-> id,
    title           |-> eventData.title,
    description     |-> eventData.description,
    date            |-> NewDate(eventData.date),
    time            |-> eventData.time,
    duration        |-> IF Has(eventData, "duration") /\ TruthyInt(eventData.duration)
                          THEN eventData.duration ELSE 60,
    maxParticipants |-> IF Has(eventData, "maxParticipants") /\ TruthyInt(eventData.maxParticipants)
                          THEN eventData.maxParticipants ELSE NullInt,
    organizerId     |-> organizerId,
    participants    |-> << >>,
    status          |-> IF Has(eventData, "status") THEN eventData.status ELSE "scheduled",
    category        |-> IF Has(eventData, "category") THEN eventData.category ELSE "general",
    isPublic        |-> IF Has(eventData, "isPublic") THEN eventData.isPublic ELSE TRUE,
    meetingLink     |-> IF Has(eventData, "meetingLink") THEN eventData.meetingLink ELSE "null",
    createdAt       |-> Now,
    updatedAt       |-> Now ]

\* Mutant: the capacity test lets one participant too many in.
AddParticipantOutcomeOffByOne(event, userId) ==
  IF TruthyInt(event.maxParticipants) /\ Len(event.participants) > event.maxParticipants
    THEN "Event is full"
  ELSE IF Includes(event.participants, userId)
    THEN "User is already registered for this event"
  ELSE "ok"

\* Mutant: the duplicate test of addParticipant is missing.
AddParticipantOutcomeNoDuplicateTest(event, userId) ==
  IF TruthyInt(event.maxParticipants) /\ Len(event.participants) >= event.maxParticipants
    THEN "Event is full"
  ELSE "ok"

\* The outcome of Event.addParticipant: the error thrown, or "ok".
AddParticipantOutcome(event, userId) ==
  IF TruthyInt(event.maxParticipants) /\ Len(event.participants) >= event.maxParticipants
    THEN "Event is full"
  ELSE IF Includes(event.participants, userId)
    THEN "User is already registered for this event"
  ELSE "ok"

\* Event.addParticipant: the event after the call (unchanged when it throws).
AddParticipant(event, userId) ==
  IF AddParticipantOutcome(event, userId) = "ok"
    THEN [event EXCEPT !.participants = Append(@, userId), !.updatedAt = Now]
    ELSE event

\* Mutant: removeParticipant does not test the index.
RemoveParticipantOutcomeNoIndexTest(event, userId) == "ok"

RemoveParticipantOutcome(event, userId) ==
  IF IndexOf(event.participants, userId) = 0
    THEN "User is not registered for this event"
    ELSE "ok"

\* Mutant: removeParticipant leaves the user among the participants.
RemoveParticipantNoSplice(event, userId) == [event EXCEPT !.updatedAt = Now]

\* Event.removeParticipant
RemoveParticipant(event, userId) ==
  IF RemoveParticipantOutcome(event, userId) = "ok"
    THEN [event EXCEPT !.participants = Splice1(@, IndexOf(@, userId)), !.updatedAt = Now]
    ELSE event

GetParticipantCount(event) == Len(event.participants)

GetAvailableSpots(event) ==
  IF ~TruthyInt(event.maxParticipants) THEN NullInt
  ELSE event.maxParticipants - Len(event.participants)

AllowedEventUpdates ==
  {"title", "description", "date", "time", "duration",
   "maxParticipants", "status", "category", "isPublic", "meetingLink"}

\* Mutant: update assigns every property the patch names.
EventUpdateAnyField(event, updateData) ==
  [f \in DOMAIN event |->
     IF f = "updatedAt" THEN Now
     ELSE IF Has(updateData, f)
       THEN (IF f = "date" THEN NewDate(updateData[f]) ELSE updateData[f])
     ELSE event[f]]

\* Event.update
EventUpdate(event, updateData) ==
  [f \in DOMAIN event |->
     IF f = "updatedAt" THEN Now
     ELSE IF f \in AllowedEventUpdates /\ Has(updateData, f)
       THEN (IF f = "date" THEN NewDate(updateData[f]) ELSE updateData[f])
     ELSE event[f]]

\* Event.toJSON, with the Date fields as JSON.stringify writes them
EventToJSON(event) ==
  [ id               |-> event.id,
    title            |-> event.title,
    description      |-> event.description,
    date             |-> DateToJSON(event.date),
    time             |-> event.time,
    duration         |-> event.duration,
    maxParticipants  |-> event.maxParticipants,
    organizerId      |-> event.organizerId,
    participants     |-> event.participants,
    participantCount |-> GetParticipantCount(event),
    availableSpots   |-> GetAvailableSpots(event),
    status           |-> event.status,
    category         |-> event.category,
    isPublic         |-> event.isPublic,
    meetingLink      |-> event.meetingLink,
    createdAt        |-> DateToJSON(event.createdAt),
    updatedAt        |-> DateToJSON(event.updatedAt) ]

(***************************************************************************)
(* Snapshot files.  A file is absent, holds a JSON array, or holds text    *)
(* that JSON.parse rejects.                                                *)
(***************************************************************************)
AbsentFile == [state |-> "absent", data |-> << >>]
JsonFile(data) == [state |-> "json", data |-> data]

\* JSON.stringify(this.events)
StringifyEvents(evs) == [i \in 1..Len(evs) |-> EventToJSON(evs[i])]

\* Mutant: loadFromFile leaves the three dates as the strings of the file.
ReviveEventKeepingStrings(eventData) == eventData

\* Mutant: loadFromFile starts every event without participants.
ReviveEventWithoutParticipants(eventData) ==
  [f \in DOMAIN eventData |->
     IF f \in {"date", "createdAt", "updatedAt"} THEN NewDate(eventData[f])
     ELSE IF f = "participants" THEN << >>
     ELSE eventData[f]]

\* The Event that loadFromFile rebuilds from one parsed record: Object.assign
\* copies every recorded property, then the three dates are re-parsed.
ReviveEvent(eventData) ==
  [f \in DOMAIN eventData |->
     IF f \in {"date", "createdAt", "updatedAt"} THEN NewDate(eventData[f])
     ELSE eventData[f]]

\* Mutant: loadFromFile leaves the collection empty.
LoadEventsNothing(file) == << >>

\* EventStore.loadFromFile, called by the constructor on an empty store
LoadEvents(file) ==
  IF file.state = "json" THEN [i \in 1..Len(file.data) |-> ReviveEvent(file.data[i])]
  ELSE << >>

\* fs.writeFileSync either replaces the file or throws and leaves it as it was;
\* EventStore.saveToFile catches the error and returns normally.
WriteOutcomes == {"written", "failed"}

SaveEvents(evs, w) ==
  IF w = "written" THEN JsonFile(StringifyEvents(evs)) ELSE eventsFile

(***************************************************************************)
(* Inputs given to the EventStore.                                         *)
(***************************************************************************)
CapValues == {NullInt} \cup (0..MaxCap)

BaseEventInput ==
  [title |-> "t1", description |-> "d1", date |-> DateOf(5), time |-> "10:00"]

EventInputs ==
  {BaseEventInput} \cup { BaseEventInput @@ [maxParticipants |-> c] : c \in CapValues }

\* updateData of the update calls: the cap is removed or set to 1
EventPatches ==
  { [maxParticipants |-> c] : c \in {NullInt, 1} }

\* this.events.find(event => event.id === id), and whether it finds one
EventOf(id) == events[FindIndexById(events, id)]

Exists(id) == FindIndexById(events, id) # 0

\* What the caller of the last operation observed: the operation and either "ok"
\* or the message of the Error it threw.
Res(op, out) == [op |-> op, out |-> out]

(***************************************************************************)
(* EventStore operations.  w is the outcome of the snapshot write.         *)
(***************************************************************************)
EventStoreCreate(eventData, organizerId, w) ==
  /\ nextEventId <= MaxEvents
  /\ events' = Append(events, NewEvent(eventData, organizerId, nextEventId))
  /\ nextEventId' = nextEventId + 1
  /\ eventsFile' = SaveEvents(events', w)
  /\ result' = Res("EventStore.create", "ok")
  /\ UNCHANGED now

\* Mutant: update without the organizer check.
EventStoreUpdateOutcomeNoOwnerCheck(id, userId) ==
  IF FindIndexById(events, id) = 0 THEN "Event not found" ELSE "ok"

EventStoreUpdateOutcome(id, userId) ==
  IF FindIndexById(events, id) = 0 THEN "Event not found"
  ELSE IF events[FindIndexById(events, id)].organizerId # userId
    THEN "Unauthorized: Only the event organizer can update this event"
  ELSE "ok"

EventStoreUpdate(id, updateData, userId, w) ==
  LET out == EventStoreUpdateOutcome(id, userId)
      i == FindIndexById(events, id)
  IN /\ result' = Res("EventStore.update", out)
     /\ IF out = "ok"
          THEN /\ events' = ReplaceAt(events, i, EventUpdate(events[i], updateData))
               /\ eventsFile' = SaveEvents(events', w)
          ELSE UNCHANGED <<events, eventsFile>>
     /\ UNCHANGED <<nextEventId, now>>

EventStoreDeleteOutcome(id, userId) ==
  IF FindIndexById(events, id) = 0 THEN "Event not found"
  ELSE IF events[FindIndexById(events, id)].organizerId # userId
    THEN "Unauthorized: Only the event organizer can delete this event"
  ELSE "ok"

EventStoreDelete(id, userId, w) ==
  LET out == EventStoreDeleteOutcome(id, userId)
      i == FindIndexById(events, id)
  IN /\ result' = Res("EventStore.delete", out)
     /\ IF out = "ok"
          THEN /\ events' = Splice1(events, i)
               /\ eventsFile' = SaveEvents(events', w)
          ELSE UNCHANGED <<events, eventsFile>>
     /\ UNCHANGED <<nextEventId, now>>

\* Mutant: registerParticipant refuses events that are cancelled or completed.
RegisterParticipantOutcomeScheduledOnly(eventId, userId) ==
  IF FindIndexById(events, eventId) = 0 THEN "Event not found"
  ELSE IF events[FindIndexById(events, eventId)].status \in {"cancelled", "completed"}
    THEN "Event is full"
  ELSE AddParticipantOutcome(events[FindIndexById(events, eventId)], userId)

RegisterParticipantOutcome(eventId, userId) ==
  IF FindIndexById(events, eventId) = 0 THEN "Event not found"
  ELSE AddParticipantOutcome(events[FindIndexById(events, eventId)], userId)

EventStoreRegisterParticipant(eventId, userId, w) ==
  LET out == RegisterParticipantOutcome(eventId, userId)
      i == FindIndexById(events, eventId)
  IN /\ result' = Res("EventStore.registerParticipant", out)
     /\ IF out = "ok"
          THEN /\ events' = ReplaceAt(events, i, AddParticipant(events[i], userId))
               /\ eventsFile' = SaveEvents(events', w)
          ELSE UNCHANGED <<events, eventsFile>>
     /\ UNCHANGED <<nextEventId, now>>

UnregisterParticipantOutcome(eventId, userId) ==
  IF FindIndexById(events, eventId) = 0 THEN "Event not found"
  ELSE RemoveParticipantOutcome(events[FindIndexById(events, eventId)], userId)

EventStoreUnregisterParticipant(eventId, userId, w) ==
  LET out == UnregisterParticipantOutcome(eventId, userId)
      i == FindIndexById(events, eventId)
  IN /\ result' = Res("EventStore.unregisterParticipant", out)
     /\ IF out = "ok"
          THEN /\ events' = ReplaceAt(events, i, RemoveParticipant(events[i], userId))
               /\ eventsFile' = SaveEvents(events', w)
          ELSE UNCHANGED <<events, eventsFile>>
     /\ UNCHANGED <<nextEventId, now>>

EventStoreClear(w) ==
  /\ events' = << >>
  /\ eventsFile' = SaveEvents(events', w)
  /\ result' = Res("EventStore.clear", "ok")
  /\ UNCHANGED <<nextEventId, now>>

\* The process stops and a new one constructs the store from the snapshot.
EventStoreRestart ==
  /\ events' = LoadEvents(eventsFile)
  /\ result' = Res("EventStore.restart", "ok")
  /\ UNCHANGED <<eventsFile, nextEventId, now>>

\* Time passes between two calls.
Tick ==
  /\ now + 1 \in Instants
  /\ now' = now + 1
  /\ result' = Res("tick", "ok")


(***************************************************************************)
(* User (src/models/User.js)                                               *)
(***************************************************************************)
\* String.prototype.toLowerCase on the e-mail addresses of the model
ToLowerCase(s) ==
  CASE s = "A@x" -> "a@x"
    [] s = "B@x" -> "b@x"
    [] OTHER -> s

Emails == {"a@x", "A@x", "b@x"}

\* uuidv4(): the n-th fresh user id
UserIdOf(n) == <<"u1", "u2", "u3", "u4">>[n]

\* bcrypt.hash(password, SECURITY.BCRYPT_SALT_ROUNDS)
BcryptHash(password) == <<"bcrypt", password>>

\* bcrypt.compare(candidate, hash)
BcryptCompare(candidate, hash) == hash = BcryptHash(candidate)

\* User.constructor
NewUser(userData, id) ==
  [ id        |-> id,
    email     |-> userData.email,
    password  |-> <<"plain", userData.password>>,
    firstName |-> userData.firstName,
    lastName  |-> userData.lastName,
    role      |-> IF Has(userData, "role") THEN userData.role ELSE "attendee",
    createdAt |-> Now,
    updatedAt |-> Now,
    isActive  |-> TRUE ]

\* User.hashPassword
HashPassword(user) == [user EXCEPT !.password = BcryptHash(@[2])]

AllowedUserUpdates == {"firstName", "lastName", "email"}

\* Mutant: update assigns every property the patch names.
UserUpdateAnyField(user, updateData) ==
  [f \in DOMAIN user |->
     IF f = "updatedAt" THEN Now
     ELSE IF Has(updateData, f) THEN updateData[f]
     ELSE user[f]]

\* User.update
UserUpdate(user, updateData) ==
  [f \in DOMAIN user |->
     IF f = "updatedAt" THEN Now
     ELSE IF f \in AllowedUserUpdates /\ Has(updateData, f) THEN updateData[f]
     ELSE user[f]]

\* What JSON.stringify writes for a property value: a Date becomes its ISO
\* string, a string stays as it is.
DateValueToJSON(v) == IF v.kind = "Date" THEN DateToJSON(v) ELSE v

\* Mutant: toJSON returns the user as it is.
UserToJSONWithPassword(user) ==
  [f \in DOMAIN user |->
     IF f \in {"createdAt", "updatedAt"} THEN DateValueToJSON(user[f]) ELSE user[f]]

\* User.toJSON as called by JSON.stringify: every own property but password
UserToJSON(user) ==
  [f \in DOMAIN user \ {"password"} |->
     IF f \in {"createdAt", "updatedAt"} THEN DateValueToJSON(user[f]) ELSE user[f]]

\* JSON.stringify(this.users)
StringifyUsers(us) == [i \in 1..Len(us) |-> UserToJSON(us[i])]

\* Object.assign(Object.create(User.prototype), userData)
ReviveUser(userData) == userData

\* UserStore.loadFromFile, called by the constructor on an empty store
LoadUsers(file) ==
  IF file.state = "json" THEN [i \in 1..Len(file.data) |-> ReviveUser(file.data[i])]
  ELSE << >>

SaveUsers(us, w) ==
  IF w = "written" THEN JsonFile(StringifyUsers(us)) ELSE usersFile

(***************************************************************************)
(* Inputs given to the UserStore.                                          *)
(***************************************************************************)
UserInputs ==
  { [email |-> e, password |-> "pw1", firstName |-> "Ann", lastName |-> "Lee"] : e \in Emails }
  \cup
  { [email |-> "b@x", password |-> "pw1", firstName |-> "Ann", lastName |-> "Lee",
     role |-> "organizer"] }

UserPatches ==
  { [email |-> e] : e \in Emails } \cup { [firstName |-> "Bob"] }

UsedUserIds == { UserIdOf(n) : n \in 1..MaxUsers }

(***************************************************************************)
(* UserStore operations.                                                   *)
(***************************************************************************)
\* Mutant: the e-mail comparison is case-sensitive.
FindByEmailCaseSensitive(us, email) ==
  LET hits == { i \in 1..Len(us) : us[i].email = email }
  IN IF hits = {} THEN 0 ELSE CHOOSE i \in hits : \A j \in hits : i <= j

\* Mutant: only the stored e-mail is lower-cased.
FindByEmailQueryAsGiven(us, email) ==
  LET hits == { i \in 1..Len(us) : ToLowerCase(us[i].email) = email }
  IN IF hits = {} THEN 0 ELSE CHOOSE i \in hits : \A j \in hits : i <= j

\* users.find(user => user.email.toLowerCase() === email.toLowerCase())
FindByEmail(us, email) ==
  LET hits == { i \in 1..Len(us) : ToLowerCase(us[i].email) = ToLowerCase(email) }
  IN IF hits = {} THEN 0 ELSE CHOOSE i \in hits : \A j \in hits : i <= j

\* Mutant: create does not look for the e-mail.
UserStoreCreateOutcomeNoCheck(userData) == "ok"

UserStoreCreateOutcome(userData) ==
  IF FindByEmail(users, userData.email) # 0 THEN "Email already exists" ELSE "ok"

\* UserStore.create up to `await user.hashPassword()`: the duplicate check, the
\* construction of the User, and the start of the hashing.
UserStoreCreateBegin(userData) ==
  LET out == UserStoreCreateOutcome(userData)
  IN /\ nextUserId <= MaxUsers
     /\ IF out = "ok"
          THEN /\ creating' = creating \cup {NewUser(userData, UserIdOf(nextUserId))}
               /\ nextUserId' = nextUserId + 1
               /\ result' = Res("UserStore.create", "pending")
          ELSE /\ result' = Res("UserStore.create", out)
               /\ UNCHANGED <<creating, nextUserId>>
     /\ UNCHANGED <<users, usersFile, now>>

\* UserStore.create from the resumption after the hashing to its return.
UserStoreCreateFinish(user, w) ==
  /\ user \in creating
  /\ creating' = creating \ {user}
  /\ users' = Append(users, HashPassword(user))
  /\ usersFile' = SaveUsers(users', w)
  /\ result' = Res("UserStore.create", "ok")
  /\ UNCHANGED <<nextUserId, now>>

\* UserStore.create awaited by a caller that makes no other call meanwhile.
UserStoreCreate(userData, w) ==
  LET out == UserStoreCreateOutcome(userData)
  IN /\ nextUserId <= MaxUsers
     /\ creating = {}
     /\ result' = Res("UserStore.create", out)
     /\ IF out = "ok"
          THEN /\ users' = Append(users, HashPassword(NewUser(userData, UserIdOf(nextUserId))))
               /\ nextUserId' = nextUserId + 1
               /\ usersFile' = SaveUsers(users', w)
          ELSE UNCHANGED <<users, usersFile, nextUserId>>
     /\ UNCHANGED <<creating, now>>

\* UserStore.findByEmail called by a caller: the id of the user found, or
\* "undefined"
UserStoreFindByEmail(email) ==
  /\ result' = [op |-> "UserStore.findByEmail", out |-> "ok", email |-> email,
                found |-> IF FindByEmail(users, email) = 0 THEN "undefined"
                          ELSE users[FindByEmail(users, email)].id]
  /\ UNCHANGED <<users, usersFile, nextUserId, creating, now>>

UserStoreUpdateOutcome(id, updateData) ==
  LET i == FindIndexById(users, id)
  IN IF i = 0 THEN "User not found"
     ELSE IF /\ Has(updateData, "email")
             /\ updateData.email # users[i].email
             /\ FindByEmail(users, updateData.email) # 0
       THEN "Email already exists"
     ELSE "ok"

UserStoreUpdate(id, updateData, w) ==
  LET out == UserStoreUpdateOutcome(id, updateData)
      i == FindIndexById(users, id)
  IN /\ result' = Res("UserStore.update", out)
     /\ IF out = "ok"
          THEN /\ users' = ReplaceAt(users, i, UserUpdate(users[i], updateData))
               /\ usersFile' = SaveUsers(users', w)
          ELSE UNCHANGED <<users, usersFile>>
     /\ UNCHANGED <<nextUserId, creating, now>>

UserStoreDeleteOutcome(id) ==
  IF FindIndexById(users, id) = 0 THEN "User not found" ELSE "ok"

UserStoreDelete(id, w) ==
  LET out == UserStoreDeleteOutcome(id)
      i == FindIndexById(users, id)
  IN /\ result' = Res("UserStore.delete", out)
     /\ IF out = "ok"
          THEN /\ users' = Splice1(users, i)
               /\ usersFile' = SaveUsers(users', w)
          ELSE UNCHANGED <<users, usersFile>>
     /\ UNCHANGED <<nextUserId, creating, now>>

UserStoreClear(w) ==
  /\ users' = << >>
  /\ usersFile' = SaveUsers(users', w)
  /\ result' = Res("UserStore.clear", "ok")
  /\ UNCHANGED <<nextUserId, creating, now>>

\* The process stops (dropping the calls in flight) and a new one constructs
\* the store from the snapshot.
UserStoreRestart ==
  /\ users' = LoadUsers(usersFile)
  /\ creating' = {}
  /\ result' = Res("UserStore.restart", "ok")
  /\ UNCHANGED <<usersFile, nextUserId, now>>

(***************************************************************************)
(* Auth middleware (src/unnamed/part_000, middleware/auth.js)              *)
(***************************************************************************)
\* JWT.EXPIRES_IN ('24h'), in clock instants
ExpiresIn == 1

JwtSecret == "JWT.SECRET"

\* generateToken: jwt.sign(payload, JWT.SECRET, options)
GenerateToken(user) ==
  [ userId |-> user.id, email |-> user.email, role |-> user.role,
    iat |-> now, exp |-> now + ExpiresIn, key |-> JwtSecret ]

\* A request without an Authorization header.
NoToken ==
  [ userId |-> "", email |-> "", role |-> "", iat |-> 0, exp |-> 0, key |-> "none" ]

\* A token that was not signed with JWT.SECRET.
Forged(token) == [token EXCEPT !.key = "forged"]

\* jwt.verify(token, secret): "ok" or the name of the error thrown
JwtVerify(token, secret) ==
  IF token.key # secret THEN "JsonWebTokenError"
  ELSE IF now >= token.exp THEN "TokenExpiredError"
  ELSE "ok"

Response(status, error, message) ==
  [status |-> status, error |-> error, message |-> message]

NoResponse == Response(0, "", "")

\* Mutant: the user of the token only has to exist.
UserActiveIgnoringIsActive(id) == FindIndexById(users, id) # 0

\* authenticateToken's test `!user || !user.isActive`, negated
UserActive(id) ==
  /\ FindIndexById(users, id) # 0
  /\ users[FindIndexById(users, id)].isActive

\* Mutant: authenticateToken refuses a token that a logout was answered for.
AuthenticateTokenUntilLogout(token) ==
  IF token = NoToken THEN Response(401, "Access denied", "No token provided")
  ELSE IF JwtVerify(token, JwtSecret) = "TokenExpiredError"
    THEN Response(401, "Access denied", "Token expired")
  ELSE IF JwtVerify(token, JwtSecret) = "JsonWebTokenError"
    THEN Response(401, "Access denied", "Invalid token")
  ELSE IF ~UserActive(token.userId)
    THEN Response(401, "Access denied", "Invalid token")
  ELSE IF \E r \in DOMAIN reqs : Has(reqs[r], "token") /\ reqs[r].token = token
    THEN Response(401, "Access denied", "Invalid token")
  ELSE NoResponse

\* Mutant: authenticateToken accepts whatever carries a user id.
AuthenticateTokenUnverified(token) ==
  IF token = NoToken THEN Response(401, "Access denied", "No token provided")
  ELSE IF ~UserActive(token.userId) THEN Response(401, "Access denied", "Invalid token")
  ELSE NoResponse

\* authenticateToken: the response it sends, or NoResponse when it calls next()
\* with req.user set to the user of the token.
AuthenticateToken(token) ==
  IF token = NoToken THEN Response(401, "Access denied", "No token provided")
  ELSE IF JwtVerify(token, JwtSecret) = "TokenExpiredError"
    THEN Response(401, "Access denied", "Token expired")
  ELSE IF JwtVerify(token, JwtSecret) = "JsonWebTokenError"
    THEN Response(401, "Access denied", "Invalid token")
  ELSE IF ~UserActive(token.userId)
    THEN Response(401, "Access denied", "Invalid token")
  ELSE NoResponse

(***************************************************************************)
(* Request handlers (src/controllers/authController.js)                    *)
(***************************************************************************)
Passwords == {"pw1", "bad"}

\* User.comparePassword: "throws" when the user has no password hash
ComparePassword(user, candidate) ==
  IF ~Has(user, "password") THEN "throws"
  ELSE IF BcryptCompare(candidate, user.password) THEN "match"
  ELSE "mismatch"

\* Mutant: login does not look at isActive.
LoginResponseIgnoringIsActive(us, email, password) ==
  LET i == FindByEmail(us, ToLowerCase(email))
  IN IF i = 0 THEN Response(401, "Invalid email or password", "")
     ELSE IF ComparePassword(us[i], password) = "throws"
       THEN Response(500, "Illegal arguments: string, undefined", "")
     ELSE IF ComparePassword(us[i], password) = "mismatch"
       THEN Response(401, "Invalid email or password", "")
     ELSE Response(200, "", "Login successful")

\* login: the response to POST /users/login, given the collection
LoginResponse(us, email, password) ==
  LET i == FindByEmail(us, ToLowerCase(email))
  IN IF i = 0 THEN Response(401, "Invalid email or password", "")
     ELSE IF ~us[i].isActive THEN Response(401, "Account is deactivated", "")
     ELSE IF ComparePassword(us[i], password) = "throws"
       THEN Response(500, "Illegal arguments: string, undefined", "")
     ELSE IF ComparePassword(us[i], password) = "mismatch"
       THEN Response(401, "Invalid email or password", "")
     ELSE Response(200, "", "Login successful")

\* register: POST /users/register with a body that passed validateRegister
HttpRegister(body) ==
  /\ UserStoreCreate(
       [email |-> ToLowerCase(body.email), password |-> body.password,
        firstName |-> body.firstName, lastName |-> body.lastName,
        role |-> IF Has(body, "role") THEN body.role ELSE "attendee"], "written")
  /\ response' = IF UserStoreCreateOutcome([email |-> ToLowerCase(body.email)]) = "ok"
                   THEN Response(201, "", "User registered successfully")
                   ELSE Response(409, "Email already exists", "")
  /\ UNCHANGED <<issued, reqs>>

\* login: POST /users/login
HttpLogin(email, password) ==
  /\ Cardinality(issued) < MaxTokens
  /\ response' = LoginResponse(users, email, password)
  /\ issued' = IF response'.status = 200
                 THEN issued \cup {GenerateToken(users[FindByEmail(users, ToLowerCase(email))])}
                 ELSE issued
  /\ result' = Res("login", "ok")
  /\ UNCHANGED <<userVars, reqs, now>>

\* What a protected route did with the request that carried token: out is "ok"
\* when the handler ran and "not run" when authenticateToken answered.
HttpRes(op, out, token) == [op |-> op, out |-> out, token |-> token]

\* getProfile behind authenticateToken: GET /users/profile
HttpGetProfile(token) ==
  /\ response' = IF AuthenticateToken(token) # NoResponse THEN AuthenticateToken(token)
                 ELSE Response(200, "", "Profile retrieved successfully")
  /\ result' = HttpRes("getProfile", IF AuthenticateToken(token) = NoResponse THEN "ok" ELSE "not run", token)
  /\ UNCHANGED <<userVars, issued, reqs, now>>

\* deactivateAccount behind authenticateToken: DELETE /users/deactivate
HttpDeactivateAccount(token) ==
  LET i == FindIndexById(users, token.userId)
  IN /\ IF AuthenticateToken(token) # NoResponse
          THEN /\ response' = AuthenticateToken(token)
               /\ result' = HttpRes("deactivateAccount", "not run", token)
               /\ UNCHANGED <<users, usersFile>>
          ELSE /\ users' = ReplaceAt(users, i, [users[i] EXCEPT !.isActive = FALSE, !.updatedAt = Now])
               /\ usersFile' = SaveUsers(users', "written")
               /\ response' = Response(200, "", "Account deactivated successfully")
               /\ result' = HttpRes("deactivateAccount", "ok", token)
     /\ UNCHANGED <<nextUserId, creating, issued, reqs, now>>

(***************************************************************************)
(* POST /events/:id/register.  A request is received (pending), then       *)
(* authenticateToken and registerForEvent run to the response without      *)
(* yielding: neither awaits before eventStore.registerParticipant returns. *)
(***************************************************************************)
ReqIds == {"r1", "r2"}

IdleReq ==
  [state |-> "idle", userId |-> "", eventId |-> 0, racing |-> FALSE, verdict |-> "",
   response |-> NoResponse]

AllIdle == \A r \in ReqIds : reqs[r].state = "idle"

\* registerForEvent: the response for an outcome of eventStore.registerParticipant
RegisterForEventResponse(out) ==
  CASE out = "ok" -> Response(200, "", "Successfully registered for the event")
    [] out = "Event not found" -> Response(404, "Event not found", "")
    [] out = "Event is full" -> Response(409, "Event is full", "")
    [] OTHER -> Response(409, "You are already registered for this event", "")

\* The server receives the request of authenticated user userId.  racing
\* records that the request overlaps another one for the same event, by
\* another user, at a moment when the event has exactly one slot left and
\* neither user is registered.
ReceiveRegisterForEvent(r, userId, eventId) ==
  LET others == { o \in ReqIds \ {r} :
                    /\ reqs[o].state = "pending"
                    /\ reqs[o].eventId = eventId
                    /\ reqs[o].userId # userId
                    /\ Exists(eventId)
                    /\ GetAvailableSpots(EventOf(eventId)) = 1
                    /\ ~Includes(EventOf(eventId).participants, userId)
                    /\ ~Includes(EventOf(eventId).participants, reqs[o].userId) }
  IN /\ reqs[r].state = "idle"
     /\ reqs' = [o \in ReqIds |->
                  IF o = r THEN [IdleReq EXCEPT !.state = "pending", !.userId = userId,
                                                !.eventId = eventId, !.racing = others # {}]
                  ELSE IF o \in others THEN [reqs[o] EXCEPT !.racing = TRUE]
                  ELSE reqs[o]]
     /\ result' = Res("receive", "ok")
     /\ UNCHANGED <<eventVars, userVars, issued, response, now>>

\* Mutant: the handler yields between the admission test and the push.
HttpRegisterForEventYielding(r) ==
  LET e == reqs[r].eventId
      u == reqs[r].userId
      i == FindIndexById(events, e)
  IN \/ /\ reqs[r].state = "pending"
        /\ reqs' = [reqs EXCEPT ![r].state = "checked",
                                ![r].verdict = RegisterParticipantOutcome(e, u)]
        /\ result' = Res("EventStore.registerParticipant", "pending")
        /\ UNCHANGED <<eventVars, userVars, issued, response, now>>
     \/ /\ reqs[r].state = "checked"
        /\ IF reqs[r].verdict = "ok" /\ i # 0
             THEN /\ events' = ReplaceAt(events, i,
                                 [events[i] EXCEPT !.participants = Append(@, u), !.updatedAt = Now])
                  /\ eventsFile' = SaveEvents(events', "written")
             ELSE UNCHANGED <<events, eventsFile>>
        /\ response' = RegisterForEventResponse(reqs[r].verdict)
        /\ reqs' = [reqs EXCEPT ![r].state = "done", ![r].response = response']
        /\ result' = Res("EventStore.registerParticipant", reqs[r].verdict)
        /\ UNCHANGED <<nextEventId, userVars, issued, now>>

\* registerForEvent for a pending request, to its response
HttpRegisterForEvent(r) ==
  /\ reqs[r].state = "pending"
  /\ EventStoreRegisterParticipant(reqs[r].eventId, reqs[r].userId, "written")
  /\ response' = RegisterForEventResponse(RegisterParticipantOutcome(reqs[r].eventId, reqs[r].userId))
  /\ reqs' = [reqs EXCEPT ![r].state = "done", ![r].response = response']
  /\ UNCHANGED <<userVars, issued>>

\* The responses have been delivered; the server holds no request.
ForgetRequests ==
  /\ \A r \in ReqIds : reqs[r].state = "done"
  /\ reqs' = [r \in ReqIds |-> IdleReq]
  /\ result' = Res("forget", "ok")
  /\ UNCHANGED <<eventVars, userVars, issued, response, now>>

(***************************************************************************)
(* Event views (src/controllers/authController.js, eventController).  A    *)
(* handler reads req.user.id and req.user.role only; req.user is null for  *)
(* a caller that optionalAuth did not recognise.                           *)
(***************************************************************************)
Anonymous == [id |-> "", role |-> "none"]

\* the roles of the registered users
RoleOf(u) == IF u = "u2" THEN "attendee" ELSE "organizer"

AuthenticatedCallers == { [id |-> u, role |-> RoleOf(u)] : u \in UserIds }

Callers == {Anonymous} \cup AuthenticatedCallers

\* Event.toJSONWithUsers, as res.json writes it
EventToJSONWithUsers(event) ==
  [ id               |-> event.id,
    title            |-> event.title,
    description      |-> event.description,
    date             |-> DateToJSON(event.date),
    time             |-> event.time,
    duration         |-> event.duration,
    maxParticipants  |-> event.maxParticipants,
    participantCount |-> GetParticipantCount(event),
    availableSpots   |-> GetAvailableSpots(event),
    status           |-> event.status,
    category         |-> event.category,
    isPublic         |-> event.isPublic,
    meetingLink      |-> event.meetingLink,
    createdAt        |-> DateToJSON(event.createdAt),
    updatedAt        |-> DateToJSON(event.updatedAt) ]

\* Event.toJSONWithParticipants: toJSON with a copy of the participants
EventToJSONWithParticipants(event) ==
  [f \in DOMAIN EventToJSON(event) |->
     IF f = "participants" THEN event.participants ELSE EventToJSON(event)[f]]

\* res.status(200).json({success, message, data: {events}})
DataResponse(status, message, evs) ==
  [status |-> status, error |-> "", message |-> message, events |-> evs]

\* events.filter(keep) on a sequence of events
RECURSIVE FilterEvents(_, _)
FilterEvents(evs, keep) ==
  IF evs = << >> THEN << >>
  ELSE IF Head(evs).id \in keep THEN <<Head(evs)>> \o FilterEvents(Tail(evs), keep)
  ELSE FilterEvents(Tail(evs), keep)

\* getEventById: GET /events/:id behind optionalAuth
GetEventByIdResponse(caller, id) ==
  IF ~Exists(id) THEN Response(404, "Event not found", "")
  ELSE IF /\ ~EventOf(id).isPublic
          /\ \/ caller = Anonymous
             \/ (caller.id # EventOf(id).organizerId /\ caller.role # "organizer")
    THEN Response(403, "Access denied to this private event", "")
  ELSE DataResponse(200, "Event retrieved successfully",
         << IF caller # Anonymous /\ caller.id = EventOf(id).organizerId
              THEN EventToJSONWithParticipants(EventOf(id))
              ELSE EventToJSON(EventOf(id)) >>)

\* getAllEvents: GET /events behind optionalAuth, without query parameters
\* (page 1 of 10 events; the events of the model have one date, so the
\* stable sort by date keeps their order)
GetAllEventsResponse(caller) ==
  LET shown == IF caller = Anonymous \/ caller.role # "organizer"
                 THEN { events[i].id : i \in { j \in 1..Len(events) : events[j].isPublic } }
                 ELSE { events[i].id : i \in 1..Len(events) }
      page == FilterEvents(events, shown)
  IN DataResponse(200, "Events retrieved successfully",
       [i \in 1..Len(page) |-> EventToJSON(page[i])])

\* getMyRegistrations: GET /events/my/registrations behind authenticateToken
GetMyRegistrationsResponse(caller) ==
  LET mine == FilterEvents(events,
                { events[i].id : i \in { j \in 1..Len(events) :
                                           Includes(events[j].participants, caller.id) } })
  IN DataResponse(200, "Your registrations retrieved successfully",
       [i \in 1..Len(mine) |-> EventToJSONWithUsers(mine[i])])

\* What a route did for caller
CallRes(op, out, caller) == [op |-> op, out |-> out, caller |-> caller]

HttpGetEventById(caller, id) ==
  /\ response' = GetEventByIdResponse(caller, id)
  /\ result' = CallRes("getEventById", IF response'.status = 200 THEN "ok" ELSE response'.error, caller)
  /\ UNCHANGED <<eventVars, userVars, issued, reqs, now>>

HttpGetAllEvents(caller) ==
  /\ response' = GetAllEventsResponse(caller)
  /\ result' = CallRes("getAllEvents", "ok", caller)
  /\ UNCHANGED <<eventVars, userVars, issued, reqs, now>>

HttpGetMyRegistrations(caller) ==
  /\ response' = GetMyRegistrationsResponse(caller)
  /\ result' = CallRes("getMyRegistrations", "ok", caller)
  /\ UNCHANGED <<eventVars, userVars, issued, reqs, now>>

\* registerForEvent for caller, with the event that the 200 response carries
HttpRegisterForEventAs(caller, id) ==
  LET out == RegisterParticipantOutcome(id, caller.id)
      i == FindIndexById(events, id)
  IN /\ IF out = "ok"
          THEN /\ events' = ReplaceAt(events, i, AddParticipant(events[i], caller.id))
               /\ eventsFile' = SaveEvents(events', "written")
               /\ response' = DataResponse(200, "Successfully registered for the event",
                                <<EventToJSONWithUsers(events'[i])>>)
          ELSE /\ UNCHANGED <<events, eventsFile>>
               /\ response' = RegisterForEventResponse(out)
     /\ result' = CallRes("registerForEvent", out, caller)
     /\ UNCHANGED <<nextEventId, userVars, issued, reqs, now>>

\* createEvent: POST /events by an organizer, with a body that passed
\* validateCreateEvent
ViewEventInputs ==
  { BaseEventInput @@ [isPublic |-> b, meetingLink |-> "https://meet/1"] : b \in BOOLEAN }

\* authenticateToken, then updateProfile: PUT /users/profile with a token and
\* a body that passed validateUpdateProfile
HttpUpdateProfile(token, body) ==
  LET patch == IF Has(body, "email") THEN [body EXCEPT !.email = ToLowerCase(@)] ELSE body
      out == UserStoreUpdateOutcome(token.userId, patch)
  IN /\ IF AuthenticateToken(token) # NoResponse
          THEN /\ response' = AuthenticateToken(token)
               /\ result' = HttpRes("updateProfile", "not run", token)
               /\ UNCHANGED <<users, usersFile, nextUserId, creating, now>>
          ELSE /\ UserStoreUpdate(token.userId, patch, "written")
               /\ response' = CASE out = "ok" -> Response(200, "", "Profile updated successfully")
                                [] out = "Email already exists" -> Response(409, "Email already exists", "")
                                [] OTHER -> Response(404, "User not found", "")
     /\ UNCHANGED <<issued, reqs>>

(***************************************************************************)
(* Specifications.                                                         *)
(***************************************************************************)
Init ==
  /\ events = << >>
  /\ eventsFile = AbsentFile
  /\ nextEventId = 1
  /\ users = << >>
  /\ usersFile = AbsentFile
  /\ nextUserId = 1
  /\ creating = {}
  /\ issued = {}
  /\ reqs = [r \in ReqIds |-> IdleReq]
  /\ response = NoResponse
  /\ now = 0
  /\ result = Res("init", "ok")

EventIds == 1..MaxEvents

EventNext(W) ==
  \/ \E d \in EventInputs, o \in OrganizerIds, w \in W : EventStoreCreate(d, o, w)
  \/ \E id \in EventIds, p \in EventPatches, u \in CallerIds, w \in W : EventStoreUpdate(id, p, u, w)
  \/ \E id \in EventIds, u \in CallerIds, w \in W : EventStoreDelete(id, u, w)
  \/ \E id \in EventIds, u \in UserIds, w \in W : EventStoreRegisterParticipant(id, u, w)
  \/ \E id \in EventIds, u \in UserIds, w \in W : EventStoreUnregisterParticipant(id, u, w)
  \/ \E w \in W : EventStoreClear(w)

\* The EventStore, called by one caller at a time, with a disk that always
\* takes the write.
Next ==
  \/ EventNext({"written"}) /\ UNCHANGED <<userVars, httpVars>>
  \/ Tick /\ UNCHANGED <<eventVars, userVars, httpVars>>

Spec == Init /\ [][Next]_vars

UserNext(W) ==
  \/ \E d \in UserInputs, w \in W : UserStoreCreate(d, w)
  \/ \E id \in UsedUserIds, p \in UserPatches, w \in W : UserStoreUpdate(id, p, w)
  \/ \E id \in UsedUserIds, w \in W : UserStoreDelete(id, w)
  \/ \E w \in W : UserStoreClear(w)

(***************************************************************************)
(* Claims about the EventStore.                                            *)
(***************************************************************************)
\* C1: in every reachable state, every event whose maxParticipants is
\* non-null has participants.length <= maxParticipants.  The code breaks it:
\* EventStore.update lowers maxParticipants below the number of participants.
C1_CapacityNeverExceeded ==
  \A i \in 1..Len(events) :
    events[i].maxParticipants # NullInt
      => Len(events[i].participants) <= events[i].maxParticipants

\* C6: registerParticipant by a non-member on an event with maxParticipants =
\* N >= 1 that has N participants fails with 'Event is full', and the events
\* (participants, updatedAt) and the snapshot are unchanged.
C6_FullEventRejectsNonMember ==
  [][\A id \in EventIds, u \in UserIds :
       ( /\ result'.op = "EventStore.registerParticipant"
         /\ Exists(id)
         /\ EventOf(id).maxParticipants >= 1
         /\ Len(EventOf(id).participants) = EventOf(id).maxParticipants
         /\ ~Includes(EventOf(id).participants, u)
         /\ EventStoreRegisterParticipant(id, u, "written") )
       => /\ result'.out = "Event is full"
          /\ UNCHANGED <<events, eventsFile>>]_vars

\* C6 witness: a registration was refused with 'Event is full' on an event
\* that is full and has a non-member left to refuse, after the clock moved.
C6_Witness ==
  /\ result = Res("EventStore.registerParticipant", "Event is full")
  /\ \E i \in 1..Len(events), u \in UserIds :
       /\ events[i].maxParticipants >= 1
       /\ Len(events[i].participants) = events[i].maxParticipants
       /\ ~Includes(events[i].participants, u)
       /\ events[i].updatedAt.ms < now

\* C7 as stated: registerParticipant by a member fails with 'User is already
\* registered for this event' whatever the capacity setting, participants
\* unchanged.  Refuted by an event at capacity, which answers 'Event is full'.
C7_MemberAlwaysAlreadyRegistered ==
  [][\A id \in EventIds, u \in UserIds :
       ( /\ result'.op = "EventStore.registerParticipant"
         /\ Exists(id)
         /\ Includes(EventOf(id).participants, u)
         /\ EventStoreRegisterParticipant(id, u, "written") )
       => /\ result'.out = "User is already registered for this event"
          /\ UNCHANGED events]_vars

\* C7 amended: registerParticipant by a member leaves the events unchanged and
\* fails with 'User is already registered for this event' when the event is
\* unlimited or below capacity, and with 'Event is full' when the number of
\* participants has reached maxParticipants.
C7_MemberRejected ==
  [][\A id \in EventIds, u \in UserIds :
       ( /\ result'.op = "EventStore.registerParticipant"
         /\ Exists(id)
         /\ Includes(EventOf(id).participants, u)
         /\ EventStoreRegisterParticipant(id, u, "written") )
       => /\ UNCHANGED <<events, eventsFile>>
          /\ result'.out =
               IF /\ EventOf(id).maxParticipants # NullInt
                  /\ Len(EventOf(id).participants) >= EventOf(id).maxParticipants
                 THEN "Event is full"
                 ELSE "User is already registered for this event"]_vars

\* C7 witness: a member's second registration was refused as a duplicate.
C7_Witness ==
  /\ result = Res("EventStore.registerParticipant", "User is already registered for this event")
  /\ \E i \in 1..Len(events) : Len(events[i].participants) >= 1

\* C8: update and delete of an existing event by a user who is not its
\* organizer fail with Unauthorized and leave the collection and the snapshot
\* unchanged.
C8_NonOrganizerRejected ==
  [][\A id \in EventIds, u \in CallerIds :
       ( /\ Exists(id)
         /\ EventOf(id).organizerId # u )
       => /\ ( /\ result'.op = "EventStore.update"
               /\ \E p \in EventPatches : EventStoreUpdate(id, p, u, "written") )
             => /\ result'.out = "Unauthorized: Only the event organizer can update this event"
                /\ UNCHANGED <<events, eventsFile>>
          /\ ( /\ result'.op = "EventStore.delete"
               /\ EventStoreDelete(id, u, "written") )
             => /\ result'.out = "Unauthorized: Only the event organizer can delete this event"
                /\ UNCHANGED <<events, eventsFile>>]_vars

\* C8 witness: an update was refused as unauthorized while the event exists.
C8_Witness ==
  /\ result = Res("EventStore.update", "Unauthorized: Only the event organizer can update this event")
  /\ Len(events) >= 1

\* The UserStore, each call completed before the next one starts.
UsersNext ==
  \/ UserNext({"written"}) /\ UNCHANGED <<eventVars, httpVars>>
  \/ \E e \in Emails \cup {"B@x"} : UserStoreFindByEmail(e) /\ UNCHANGED <<eventVars, httpVars>>
  \/ UserStoreRestart /\ UNCHANGED <<eventVars, httpVars>>
  \/ Tick /\ UNCHANGED <<eventVars, userVars, httpVars>>

SpecUsers == Init /\ [][UsersNext]_vars

(***************************************************************************)
(* Claims about the UserStore.                                             *)
(***************************************************************************)
\* C3: after any sequence of completed UserStore calls, no two users of the
\* collection have e-mails that are equal ignoring letter case.
C3_EmailsUniqueIgnoringCase ==
  \A i, j \in 1..Len(users) :
    i # j => ToLowerCase(users[i].email) # ToLowerCase(users[j].email)

\* C3 witness: two users are stored and an update to an e-mail that differs
\* from a stored one only by case was refused.
C3_Witness ==
  /\ Len(users) = 2
  /\ result = Res("UserStore.update", "Email already exists")
  /\ \E i \in 1..Len(users) : users[i].email # ToLowerCase(users[i].email)

\* C4: when a UserStore.create resumes after the hashing and its e-mail has
\* been taken meanwhile (ignoring case), it fails with 'Email already exists'
\* and adds nothing.  The code pushes the second user.
C4_OverlappingCreateRejected ==
  [][\A u \in creating :
       ( /\ FindByEmail(users, u.email) # 0
         /\ UserStoreCreateFinish(u, "written") )
       => /\ result'.out = "Email already exists"
          /\ users' = users]_vars

PersistedUserFields == {"id", "email", "password", "firstName", "lastName", "role", "isActive"}

\* C5: a restart from the snapshot of the current collection yields users
\* with the same id, email, password hash, firstName, lastName, role and
\* isActive, and every login that succeeded before it succeeds after it.  The
\* code writes no password, so the reloaded users have none.
C5_RestartKeepsUsers ==
  [][( /\ UserStoreRestart
       /\ usersFile = JsonFile(StringifyUsers(users)) )
     => /\ Len(users') = Len(users)
        /\ \A i \in 1..Len(users) : \A f \in PersistedUserFields :
             Has(users[i], f) => Has(users'[i], f) /\ users'[i][f] = users[i][f]
        /\ \A e \in Emails, pw \in Passwords :
             LoginResponse(users, e, pw).status = 200
               => LoginResponse(users', e, pw).status = 200]_vars

\* The UserStore with create calls that overlap other calls.
UsersAsyncNext ==
  \/ \E d \in UserInputs : UserStoreCreateBegin(d) /\ UNCHANGED <<eventVars, httpVars>>
  \/ \E u \in creating : UserStoreCreateFinish(u, "written") /\ UNCHANGED <<eventVars, httpVars>>
  \/ \E id \in UsedUserIds, p \in UserPatches : UserStoreUpdate(id, p, "written") /\ UNCHANGED <<eventVars, httpVars>>
  \/ \E id \in UsedUserIds : UserStoreDelete(id, "written") /\ UNCHANGED <<eventVars, httpVars>>
  \/ Tick /\ UNCHANGED <<eventVars, userVars, httpVars>>

SpecUsersAsync == Init /\ [][UsersAsyncNext]_vars

\* The EventStore across process restarts.
PersistNext ==
  \/ EventNext({"written"}) /\ UNCHANGED <<userVars, httpVars>>
  \/ EventStoreRestart /\ UNCHANGED <<userVars, httpVars>>
  \/ Tick /\ UNCHANGED <<eventVars, userVars, httpVars>>

SpecPersist == Init /\ [][PersistNext]_vars

\* The EventStore with a disk that may refuse the write.
FaultNext ==
  \/ EventNext(WriteOutcomes) /\ UNCHANGED <<userVars, httpVars>>
  \/ Tick /\ UNCHANGED <<eventVars, userVars, httpVars>>

SpecFault == Init /\ [][FaultNext]_vars

\* Accounts and tokens: registration, login, deactivation, deletion of a user
\* and a request to a protected route.
PresentedTokens == issued \cup { Forged(t) : t \in issued } \cup {NoToken}

AuthNext ==
  \/ \E d \in UserInputs : HttpRegister(d) /\ UNCHANGED eventVars
  \/ \E e \in Emails, pw \in Passwords : HttpLogin(e, pw) /\ UNCHANGED eventVars
  \/ \E t \in PresentedTokens : HttpGetProfile(t) /\ UNCHANGED eventVars
  \/ \E t \in PresentedTokens : HttpDeactivateAccount(t) /\ UNCHANGED eventVars
  \/ \E id \in UsedUserIds : UserStoreDelete(id, "written") /\ UNCHANGED <<eventVars, httpVars>>
  \/ Tick /\ UNCHANGED <<eventVars, userVars, httpVars>>

SpecAuth == Init /\ [][AuthNext]_vars

\* Registration requests in flight: the store is set up while the server
\* holds no request, then up to two requests are received and handled in
\* any order.
RaceNext ==
  \/ AllIdle /\ EventNext({"written"}) /\ UNCHANGED <<userVars, httpVars>>
  \/ \E r \in ReqIds, u \in UserIds, id \in EventIds : ReceiveRegisterForEvent(r, u, id)
  \/ \E r \in ReqIds : HttpRegisterForEvent(r)
  \/ ForgetRequests

SpecRace == Init /\ [][RaceNext]_vars

(***************************************************************************)
(* Claims about requests.                                                  *)
(***************************************************************************)
Racing == { r \in ReqIds : reqs[r].racing }

\* C2: when two registration requests of different users overlap on an event
\* with exactly one remaining slot, then whatever the order in which the
\* handlers run, one request succeeds, the other is answered 409 'Event is
\* full', and the event never has more participants than maxParticipants.
C2_OneSlotOneWinner ==
  /\ \A r \in Racing :
       LET e == EventOf(reqs[r].eventId)
       IN /\ Exists(reqs[r].eventId)
          /\ Len(e.participants) <= e.maxParticipants
  /\ (Racing = ReqIds /\ \A r \in ReqIds : reqs[r].state = "done")
       => \E w \in ReqIds :
            /\ reqs[w].response.status = 200
            /\ \A l \in ReqIds \ {w} : reqs[l].response = Response(409, "Event is full", "")

\* C2 witness: both overlapping requests have been answered, one with 200.
C2_Witness ==
  /\ Racing = ReqIds
  /\ \A r \in ReqIds : reqs[r].state = "done"
  /\ \E w \in ReqIds : reqs[w].response.status = 200
  /\ \E l \in ReqIds : reqs[l].response.status = 409

\* The tokens issued by login that are unexpired but whose user has been
\* deleted or deactivated.
OrphanTokens ==
  { t \in issued :
      /\ t.key = JwtSecret
      /\ now < t.exp
      /\ \A i \in 1..Len(users) : users[i].id = t.userId => ~users[i].isActive }

\* C9: a request to a protected route that carries an issued, unexpired token
\* of a deleted or deactivated user is answered exactly as a request with a
\* token of invalid signature (401, 'Access denied', 'Invalid token'); the
\* handler does not run and the users are unchanged.
C9_OrphanTokenRejectedAsInvalid ==
  [][\A t \in OrphanTokens :
       (HttpGetProfile(t) \/ HttpDeactivateAccount(t))
       => /\ response' = Response(401, "Access denied", "Invalid token")
          /\ response' = AuthenticateToken(Forged(t))
          /\ result'.out = "not run"
          /\ UNCHANGED <<users, usersFile>>]_vars

\* C9 witness: the last request carried an unexpired token of a deactivated
\* user and was refused.
C9_Witness ==
  /\ Has(result, "token")
  /\ result.token \in OrphanTokens
  /\ FindIndexById(users, result.token.userId) # 0
  /\ result.out = "not run"
  /\ response = Response(401, "Access denied", "Invalid token")

\* C9 witness for deletion: the user of the refused token is no longer stored.
C9_WitnessDeleted ==
  /\ Has(result, "token")
  /\ result.token \in OrphanTokens
  /\ FindIndexById(users, result.token.userId) = 0
  /\ response = Response(401, "Access denied", "Invalid token")

EventStoreMutators ==
  {"EventStore.create", "EventStore.update", "EventStore.delete",
   "EventStore.registerParticipant", "EventStore.unregisterParticipant", "EventStore.clear"}

\* C10: after every mutating EventStore call that returned success, the
\* snapshot file holds the serialization of the whole current collection.
\* The code returns success when the write failed.
C10_SnapshotIsCurrentAfterSuccess ==
  (result.op \in EventStoreMutators /\ result.out = "ok")
    => eventsFile = JsonFile(StringifyEvents(events))

\* C11: a mutating EventStore call whose snapshot write fails does not return
\* success: a step that only a failed write explains never ends with "ok".
\* The code catches the write error in saveToFile and returns normally.
C11_WriteFailurePropagates ==
  [][(EventNext({"failed"}) /\ ~EventNext({"written"})) => result'.out # "ok"]_vars

\* The event views: organizers create public and private events, users
\* register, and anybody reads.
ViewsNext ==
  \/ \E d \in ViewEventInputs, o \in OrganizerIds :
       EventStoreCreate(d, o, "written") /\ UNCHANGED <<userVars, httpVars>>
  \/ \E c \in AuthenticatedCallers, id \in EventIds : HttpRegisterForEventAs(c, id)
  \/ \E c \in Callers, id \in EventIds : HttpGetEventById(c, id)
  \/ \E c \in Callers : HttpGetAllEvents(c)
  \/ \E c \in AuthenticatedCallers : HttpGetMyRegistrations(c)

SpecViews == Init /\ [][ViewsNext]_vars

\* The events that the response to the last request carries.
Shown ==
  IF Has(result, "caller") /\ Has(response, "events")
    THEN { response.events[i] : i \in 1..Len(response.events) }
    ELSE {}

\* C12: no response to a caller other than the organizer of an event carries
\* participant ids of that event.  The code answers GET /events and GET
\* /events/:id with Event.toJSON, which includes the participants array.
C12_NoParticipantIdsForOthers ==
  \A p \in Shown :
    (Exists(p.id) /\ result.caller.id # EventOf(p.id).organizerId)
      => (~Has(p, "participants") \/ p.participants = << >>)

\* C13: no response to an unauthenticated caller or to an attendee carries
\* the details (title, description, meetingLink) of a private event.  The
\* code lets an attendee register for a private event and answers with it.
C13_NoPrivateDetailsForAttendees ==
  \A p \in Shown :
    (result.caller = Anonymous \/ result.caller.role = "attendee")
      => (p.isPublic \/ ({"title", "description", "meetingLink"} \cap DOMAIN p = {}))

\* C14: after every UserStore.create and UserStore.update the stored e-mail of
\* each user equals its own lower-case conversion.  The store keeps the
\* e-mail as the caller wrote it.
C14_StoredEmailLowercase ==
  \A i \in 1..Len(users) : users[i].email = ToLowerCase(users[i].email)

\* Another user than id holds email, ignoring case.
HeldByAnother(id, email) ==
  \E j \in 1..Len(users) :
    users[j].id # id /\ ToLowerCase(users[j].email) = ToLowerCase(email)

\* C15: UserStore.update of an existing user with a patch that has an e-mail
\* fails with 'Email already exists' exactly when another user holds that
\* e-mail ignoring case, and then changes nothing; otherwise the patch is
\* applied.  The code searches the user itself too, so a patch that changes
\* only the letter case of the user's own e-mail is refused.
C15_DuplicateOnlyForAnotherUser ==
  [][\A id \in UsedUserIds, e \in Emails :
       ( /\ result'.op = "UserStore.update"
         /\ FindIndexById(users, id) # 0
         /\ UserStoreUpdate(id, [email |-> e], "written") )
       => IF HeldByAnother(id, e)
            THEN result'.out = "Email already exists" /\ UNCHANGED <<users, usersFile>>
            ELSE /\ result'.out = "ok"
                 /\ users'[FindIndexById(users, id)].email = e]_vars

\* An e-mail that nobody registers.
UnregisteredEmail == "z@x"

\* C16: in every store state, a login with a wrong password gets the same
\* response (status and error) for a registered e-mail as for an unregistered
\* one.  The code tests isActive before the password, so a deactivated
\* account answers 'Account is deactivated' to any password.
C16_FailedLoginHidesRegistration ==
  \A i \in 1..Len(users) :
    LoginResponse(users, users[i].email, "bad") = LoginResponse(users, UnregisteredEmail, "bad")

\* The accounts as the routes and restarts of the process change them.
AccountsNext ==
  \/ \E d \in UserInputs : HttpRegister(d) /\ UNCHANGED eventVars
  \/ \E e \in Emails, pw \in Passwords : HttpLogin(e, pw) /\ UNCHANGED eventVars
  \/ \E t \in issued, p \in UserPatches : HttpUpdateProfile(t, p) /\ UNCHANGED eventVars
  \/ \E t \in issued : HttpDeactivateAccount(t) /\ UNCHANGED eventVars
  \/ UserStoreRestart /\ UNCHANGED <<eventVars, httpVars>>
  \/ Tick /\ UNCHANGED <<eventVars, userVars, httpVars>>

SpecAccounts == Init /\ [][AccountsNext]_vars

\* C17: a deactivated user stays in the collection and stays deactivated
\* through every step, and every login with its e-mail, whatever the
\* password, is answered 401.
C17_DeactivatedStaysRejected ==
  [][\A i \in 1..Len(users) :
       ~users[i].isActive
         => \E j \in 1..Len(users') :
              /\ users'[j].id = users[i].id
              /\ users'[j].email = users[i].email
              /\ ~users'[j].isActive
              /\ \A pw \in Passwords :
                   LoginResponse(users', users'[j].email, pw).status = 401]_vars

\* C17 witness: a login with the right password of a deactivated account was
\* refused after a restart of the process.
C17_Witness ==
  /\ result.op = "login"
  /\ response = Response(401, "Account is deactivated", "")
  /\ \E i \in 1..Len(users) : ~users[i].isActive /\ ~Has(users[i], "password")

\* The properties the Event constructor sets.
EventFields ==
  {"id", "title", "description", "date", "time", "duration", "maxParticipants",
   "organizerId", "participants", "status", "category", "isPublic", "meetingLink",
   "createdAt", "updatedAt"}

\* The EventStore reloaded from the snapshot that its own calls wrote.
ReloadNext ==
  \/ \E d \in EventInputs, o \in OrganizerIds : EventStoreCreate(d, o, "written") /\ UNCHANGED <<userVars, httpVars>>
  \/ \E id \in EventIds, u \in OrganizerIds : EventStoreDelete(id, u, "written") /\ UNCHANGED <<userVars, httpVars>>
  \/ \E id \in EventIds, u \in CallerIds :
       EventStoreRegisterParticipant(id, u, "written") /\ UNCHANGED <<userVars, httpVars>>
  \/ \E id \in EventIds, u \in CallerIds :
       EventStoreUnregisterParticipant(id, u, "written") /\ UNCHANGED <<userVars, httpVars>>
  \/ EventStoreRestart /\ UNCHANGED <<userVars, httpVars>>
  \/ Tick /\ UNCHANGED <<eventVars, userVars, httpVars>>

SpecReload == Init /\ [][ReloadNext]_vars

C19_NonMemberUnregisterRejected ==
  [][\A id \in EventIds, u \in UserIds :
       ( /\ result'.op = "EventStore.unregisterParticipant"
         /\ Exists(id)
         /\ ~Includes(EventOf(id).participants, u)
         /\ EventStoreUnregisterParticipant(id, u, "written") )
       => /\ result'.out = "User is not registered for this event"
          /\ UNCHANGED <<events, eventsFile>>]_vars

\* C19 witness: a non-member was refused on an event that has participants.
C19_Witness ==
  /\ result = Res("EventStore.unregisterParticipant", "User is not registered for this event")
  /\ \E i \in 1..Len(events) : events[i].participants # << >>

\* The users who are not among the participants of an event.
NonMembers(event) == { v \in UserIds : ~Includes(event.participants, v) }

\* C20: when unregisterParticipant succeeds on an event whose participants
\* number maxParticipants, exactly one slot is free afterwards: addParticipant
\* of any non-member succeeds and brings the count back to maxParticipants,
\* and after it addParticipant of any other non-member throws 'Event is full'.
C20_UnregisterFreesOneSlot ==
  [][\A id \in EventIds, u \in UserIds :
       ( /\ result'.op = "EventStore.unregisterParticipant"
         /\ result'.out = "ok"
         /\ Exists(id)
         /\ Len(EventOf(id).participants) = EventOf(id).maxParticipants
         /\ EventStoreUnregisterParticipant(id, u, "written") )
       => LET freed == events'[FindIndexById(events', id)]
          IN /\ GetAvailableSpots(freed) = 1
             /\ \A v \in NonMembers(freed) :
                  /\ AddParticipantOutcome(freed, v) = "ok"
                  /\ Len(AddParticipant(freed, v).participants) = freed.maxParticipants
                  /\ \A x \in NonMembers(AddParticipant(freed, v)) :
                       AddParticipantOutcome(AddParticipant(freed, v), x) = "Event is full"]_vars

\* C20 witness: a participant left an event that was full, and two users
\* who are not participants remain to compete for the slot.
C20_Witness ==
  /\ result = Res("EventStore.unregisterParticipant", "ok")
  /\ \E i \in 1..Len(events) :
       /\ GetAvailableSpots(events[i]) = 1
       /\ Len(events[i].participants) = events[i].maxParticipants - 1
       /\ Cardinality(NonMembers(events[i])) >= 2

(***************************************************************************)
(* Listing of events: EventStore.findWithFilters and GET /events with its  *)
(* query (validateEventQuery, getAllEvents).                               *)
(***************************************************************************)
MaxListed == 2      \* events in the store that is listed

Min(a, b) == IF a < b THEN a ELSE b

\* events.filter(test) for a test given as the set of the events that pass
RECURSIVE SelectEvents(_, _)
SelectEvents(evs, pass) ==
  IF evs = << >> THEN << >>
  ELSE IF Head(evs) \in pass THEN <<Head(evs)>> \o SelectEvents(Tail(evs), pass)
  ELSE SelectEvents(Tail(evs), pass)

ElementsOf(evs) == { evs[i] : i \in 1..Len(evs) }

\* The place of e in a sorted array under the comparator (a, b) => a.date - b.date
\* of a stable sort: after every event that does not compare greater.
RECURSIVE InsertByDate(_, _)
InsertByDate(sorted, e) ==
  IF sorted = << >> THEN <<e>>
  ELSE IF Head(sorted).date.ms - e.date.ms <= 0
    THEN <<Head(sorted)>> \o InsertByDate(Tail(sorted), e)
  ELSE <<e>> \o sorted

\* events.sort((a, b) => a.date - b.date); Array.prototype.sort is stable
RECURSIVE SortByDate(_)
SortByDate(evs) ==
  IF evs = << >> THEN << >>
  ELSE InsertByDate(SortByDate(SubSeq(evs, 1, Len(evs) - 1)), evs[Len(evs)])

\* Mutant: the category filter is skipped when a status filter is given.
FindWithFiltersCategoryDropped(evs, filters) ==
  LET byPublic == IF Has(filters, "isPublic")
                    THEN SelectEvents(evs, { e \in ElementsOf(evs) : e.isPublic = filters.isPublic })
                    ELSE evs
      byStatus == IF Has(filters, "status")
                    THEN SelectEvents(byPublic, { e \in ElementsOf(byPublic) : e.status = filters.status })
                    ELSE byPublic
      byCategory == IF Has(filters, "category") /\ ~Has(filters, "status")
                      THEN SelectEvents(byStatus, { e \in ElementsOf(byStatus) : e.category = filters.category })
                      ELSE byStatus
      byStart == IF Has(filters, "startDate")
                   THEN SelectEvents(byCategory, { e \in ElementsOf(byCategory) : e.date.ms >= NewDate(filters.startDate).ms })
                   ELSE byCategory
      byEnd == IF Has(filters, "endDate")
                 THEN SelectEvents(byStart, { e \in ElementsOf(byStart) : e.date.ms <= NewDate(filters.endDate).ms })
                 ELSE byStart
  IN SortByDate(byEnd)

\* EventStore.findWithFilters on the collection evs (a copy is filtered and
\* sorted).  The filters given are non-empty strings, booleans and dates.
FindWithFilters(evs, filters) ==
  LET byPublic == IF Has(filters, "isPublic")
                    THEN SelectEvents(evs, { e \in ElementsOf(evs) : e.isPublic = filters.isPublic })
                    ELSE evs
      byStatus == IF Has(filters, "status")
                    THEN SelectEvents(byPublic, { e \in ElementsOf(byPublic) : e.status = filters.status })
                    ELSE byPublic
      byCategory == IF Has(filters, "category")
                      THEN SelectEvents(byStatus, { e \in ElementsOf(byStatus) : e.category = filters.category })
                      ELSE byStatus
      byStart == IF Has(filters, "startDate")
                   THEN SelectEvents(byCategory, { e \in ElementsOf(byCategory) : e.date.ms >= NewDate(filters.startDate).ms })
                   ELSE byCategory
      byEnd == IF Has(filters, "endDate")
                 THEN SelectEvents(byStart, { e \in ElementsOf(byStart) : e.date.ms <= NewDate(filters.endDate).ms })
                 ELSE byStart
  IN SortByDate(byEnd)

\* A record with the fields of r for which keep holds (an object literal built
\* field by field).
Only(r, keep) == [f \in keep |-> r[f]]

\* The filters given to findWithFilters
Filters ==
  LET full == [isPublic : BOOLEAN, status : {"cancelled"}, category : {"technology"},
               startDate : {DateOf(2)}, endDate : {DateOf(1)}]
  IN { Only(f, keep) : f \in full, keep \in SUBSET {"isPublic", "status", "category", "startDate", "endDate"} }

\* The call eventStore.findWithFilters(filters) and what it returns
EventStoreFindWithFilters(filters) ==
  /\ result' = [op |-> "EventStore.findWithFilters", out |-> "ok", filters |-> filters,
                found |-> FindWithFilters(events, filters)]
  /\ UNCHANGED <<events, eventsFile, nextEventId, now>>

\* A value of req.query after validateEventQuery: Joi has converted the text
\* of the parameter to the type of its schema.
JoiBoolean(text) == [type |-> "boolean", value |-> (text = "true")]

\* x === 'true' for a query value x
IsStringTrue(x) == x.type = "string" /\ x.value = "true"

\* req.query after validateEventQuery (req.query = value): isPublic as Joi
\* converted it, page and limit as numbers with their defaults.
Queries ==
  { [page |-> p, limit |-> l] : p \in 1..3, l \in 1..2 }
  \cup
  { [page |-> p, limit |-> l, isPublic |-> JoiBoolean(t)] :
      p \in 1..3, l \in 1..2, t \in {"true", "false"} }

\* Math.ceil(n / l) for n >= 0 and l >= 1
CeilDiv(n, l) == (n + l - 1) \div l

\* array.slice(startIndex, endIndex) for 0 <= startIndex <= endIndex
Slice(arr, startIndex, endIndex) == SubSeq(arr, startIndex + 1, Min(endIndex, Len(arr)))

\* Mutant: the page ends one event early.
PageOfShort(evs, page, limit) == Slice(evs, (page - 1) * limit, (page - 1) * limit + limit - 1)

\* The slice of getAllEvents
PageOf(evs, page, limit) == Slice(evs, (page - 1) * limit, (page - 1) * limit + limit)

\* The filter of getAllEvents for a caller and all its matches, before paging
VisibleEvents(caller, query) ==
  LET filters == IF Has(query, "isPublic") THEN [isPublic |-> IsStringTrue(query.isPublic)]
                 ELSE << >>
      found == FindWithFilters(events, filters)
  IN IF caller = Anonymous \/ caller.role # "organizer"
       THEN SelectEvents(found, { e \in ElementsOf(found) : e.isPublic })
       ELSE found

\* getAllEvents: GET /events behind optionalAuth and validateEventQuery
ListEventsResponse(caller, query) ==
  LET visible == VisibleEvents(caller, query)
      page == PageOf(visible, query.page, query.limit)
      endIndex == (query.page - 1) * query.limit + query.limit
  IN [ status |-> 200, error |-> "", message |-> "Events retrieved successfully",
       events |-> [i \in 1..Len(page) |-> EventToJSON(page[i])],
       pagination |-> [ currentPage |-> query.page,
                        totalPages |-> CeilDiv(Len(visible), query.limit),
                        totalEvents |-> Len(visible),
                        hasNextPage |-> endIndex < Len(visible),
                        hasPrevPage |-> query.page > 1 ] ]

HttpListEvents(caller, query) ==
  /\ response' = ListEventsResponse(caller, query)
  /\ result' = [op |-> "getAllEvents", out |-> "ok", caller |-> caller, query |-> query]
  /\ UNCHANGED <<eventVars, userVars, issued, reqs, now>>

\* The caller has read what the last call returned.
ListingRead ==
  /\ result.op \in {"EventStore.findWithFilters", "getAllEvents"}
  /\ result' = Res("read", "ok")
  /\ response' = NoResponse
  /\ UNCHANGED <<eventVars, userVars, issued, reqs, now>>

\* The event data of the listed stores
ListedEventInputs ==
  { [date |-> DateOf(d), isPublic |-> b, category |-> k[1], status |-> k[2]] @@ BaseEventInput :
      d \in {1, 2}, b \in BOOLEAN,
      k \in {<<"technology", "scheduled">>, <<"technology", "cancelled">>, <<"business", "cancelled">>} }

\* The stores that hold up to MaxListed events, created in the order of their ids
ListedStores ==
  UNION { { [i \in 1..n |-> NewEvent(d[i], "u1", i)] : d \in [1..n -> ListedEventInputs] } :
            n \in 0..MaxListed }

ListingInit ==
  /\ now = 0
  /\ events \in ListedStores
  /\ eventsFile = (IF events = << >> THEN AbsentFile ELSE JsonFile(StringifyEvents(events)))
  /\ nextEventId = Len(events) + 1
  /\ users = << >>
  /\ usersFile = AbsentFile
  /\ nextUserId = 1
  /\ creating = {}
  /\ issued = {}
  /\ reqs = [r \in ReqIds |-> IdleReq]
  /\ response = NoResponse
  /\ result = Res("init", "ok")

ListingCallers == { c \in Callers : c.id \in {"", "u1", "u2"} }

\* One caller at a time lists the events of a store and reads the answer.
ListingNext ==
  \/ \E f \in Filters :
       /\ result.op \in {"init", "read"}
       /\ EventStoreFindWithFilters(f)
       /\ UNCHANGED <<userVars, httpVars>>
  \/ \E c \in ListingCallers, q \in Queries : result.op \in {"init", "read"} /\ HttpListEvents(c, q)
  \/ ListingRead

SpecListing == ListingInit /\ [][ListingNext]_vars

\* The events that pass the filters that were given.
Matching(evs, filters) ==
  { e \in ElementsOf(evs) :
      /\ Has(filters, "isPublic") => e.isPublic = filters.isPublic
      /\ Has(filters, "status") => e.status = filters.status
      /\ Has(filters, "category") => e.category = filters.category
      /\ Has(filters, "startDate") => filters.startDate.ms <= e.date.ms
      /\ Has(filters, "endDate") => e.date.ms <= filters.endDate.ms }

\* C22: findWithFilters returns each event that passes every filter given,
\* once, and no other event; the events are in ascending order of date, those
\* of one date in the order of the collection; the collection is unchanged.
C22_FindWithFiltersExactAndOrdered ==
  [][result'.op = "EventStore.findWithFilters"
       => LET found == result'.found
          IN /\ ElementsOf(found) = Matching(events, result'.filters)
             /\ Len(found) = Cardinality(ElementsOf(found))
             /\ \A i, j \in 1..Len(found) :
                  i < j => \/ found[i].date.ms < found[j].date.ms
                           \/ /\ found[i].date.ms = found[j].date.ms
                              /\ found[i].id < found[j].id
             /\ events' = events]_vars

\* C22 witness: two filters were given, two events passed, and the sort put
\* the later-created one first.
C22_Witness ==
  /\ result.op = "EventStore.findWithFilters"
  /\ {"category", "isPublic"} \subseteq DOMAIN result.filters
  /\ Len(result.found) = 2
  /\ result.found[1].id > result.found[2].id

\* C21: when GET /events is asked with isPublic, every event of the response
\* has the isPublic of the query, and the response of page 1 with room for
\* all events carries every event of that isPublic that the caller may see.
C21_VisibilityFilterIsQueryValue ==
  [][(result'.op = "getAllEvents" /\ Has(result'.query, "isPublic"))
       => LET asked == result'.query.isPublic.value
              caller == result'.caller
              listed == { response'.events[i].id : i \in 1..Len(response'.events) }
          IN /\ \A i \in 1..Len(response'.events) : response'.events[i].isPublic = asked
             /\ (result'.query.page = 1 /\ result'.query.limit >= Len(events))
                  => \A e \in ElementsOf(events) :
                       (e.isPublic = asked /\ (e.isPublic \/ caller.role = "organizer"))
                         => e.id \in listed]_vars

\* C23: the response of GET /events carries the events at positions
\* (p-1)*L up to min(p*L, N) of the N date-ordered events the caller may see,
\* with totalPages = ceil(N/L), hasNextPage iff p*L < N and hasPrevPage iff
\* p > 1; the pages 1..totalPages, one after the other, are those N events.
C23_PagesPartitionTheResult ==
  [][result'.op = "getAllEvents"
       => LET p == result'.query.page
              L == result'.query.limit
              all == VisibleEvents(result'.caller, result'.query)
              N == Len(all)
              from == Min((p - 1) * L, N)
              upto == Min(p * L, N)
              total == response'.pagination.totalPages
              Pages[k \in 0..total] ==
                IF k = 0 THEN << >>
                ELSE Pages[k - 1] \o
                     ListEventsResponse(result'.caller, [result'.query EXCEPT !.page = k]).events
          IN /\ response'.events = [i \in 1..(upto - from) |-> EventToJSON(all[from + i])]
             /\ total * L >= N /\ (total - 1) * L < N
             /\ response'.pagination.hasNextPage = (p * L < N)
             /\ response'.pagination.hasPrevPage = (p > 1)
             /\ Pages[total] = [i \in 1..N |-> EventToJSON(all[i])]]_vars

\* C23 witness: the second of two pages was served, one event on each.
C23_Witness ==
  /\ result.op = "getAllEvents"
  /\ result.query.page = 2 /\ result.query.limit = 1
  /\ response.pagination.totalPages = 2
  /\ Len(response.events) = 1
  /\ ~response.pagination.hasNextPage /\ response.pagination.hasPrevPage

(***************************************************************************)
(* POST /events: authenticateToken, validateCreateEvent, createEvent.      *)
(***************************************************************************)
\* Mutant: createEvent does not test the role.
CreateEventRefusalAnyRole(user) == "ok"

\* createEvent's test of req.user.role
CreateEventRefusal(user) ==
  IF user.role # "organizer" THEN "Only organizers can create events" ELSE "ok"

HttpCreateEvent(token, body) ==
  LET user == users[FindIndexById(users, token.userId)]
  IN /\ IF AuthenticateToken(token) # NoResponse
          THEN /\ response' = AuthenticateToken(token)
               /\ result' = HttpRes("createEvent", "not run", token)
               /\ UNCHANGED <<events, eventsFile, nextEventId>>
          ELSE IF CreateEventRefusal(user) # "ok"
            THEN /\ response' = Response(403, CreateEventRefusal(user), "")
                 /\ result' = HttpRes("createEvent", CreateEventRefusal(user), token)
                 /\ UNCHANGED <<events, eventsFile, nextEventId>>
          ELSE /\ nextEventId <= MaxEvents
               /\ events' = Append(events, NewEvent(body, user.id, nextEventId))
               /\ nextEventId' = nextEventId + 1
               /\ eventsFile' = SaveEvents(events', "written")
               /\ response' = Response(201, "", "Event created successfully")
               /\ result' = HttpRes("createEvent", "ok", token)
     /\ UNCHANGED <<userVars, issued, reqs, now>>

\* The protected routes, asked with and without tokens.
ProtectedNext ==
  \/ \E d \in UserInputs : HttpRegister(d) /\ UNCHANGED eventVars
  \/ \E e \in Emails, pw \in Passwords : HttpLogin(e, pw) /\ UNCHANGED eventVars
  \/ \E t \in PresentedTokens : HttpGetProfile(t) /\ UNCHANGED eventVars
  \/ \E t \in PresentedTokens : HttpDeactivateAccount(t) /\ UNCHANGED eventVars
  \/ \E t \in PresentedTokens : HttpCreateEvent(t, BaseEventInput)
  \/ Tick /\ UNCHANGED <<eventVars, userVars, httpVars>>

SpecProtected == Init /\ [][ProtectedNext]_vars

\* The token of the request verifies and is of a stored, active user.
GoodToken(t) ==
  /\ t \in issued
  /\ now < t.exp
  /\ \E i \in 1..Len(users) : users[i].id = t.userId /\ users[i].isActive

\* C24: a request to a protected route either carries a token that verifies
\* and resolves to a stored active user, or it is answered 401 'Access
\* denied', its handler does not run, and the stores and snapshots are
\* unchanged.
C24_ProtectedRoutesNeedGoodToken ==
  [][(result'.op \in {"getProfile", "deactivateAccount", "createEvent"} /\ ~GoodToken(result'.token))
       => /\ result'.out = "not run"
          /\ response'.status = 401 /\ response'.error = "Access denied"
          /\ UNCHANGED <<events, eventsFile, users, usersFile>>]_vars

\* C24 witness: POST /events with the forged token of an active organizer was
\* refused.
C24_Witness ==
  /\ result.op = "createEvent" /\ result.out = "not run"
  /\ result.token.key = "forged"
  /\ response.status = 401
  /\ \E i \in 1..Len(users) :
       users[i].id = result.token.userId /\ users[i].isActive /\ users[i].role = "organizer"

\* C25: every answer of POST /events to an authenticated caller is either 201
\* with a new last event whose organizerId is the caller's id, the caller being
\* an organizer, or 403 with the events and the snapshot unchanged, the caller
\* not being an organizer.
C25_CreatedEventsBelongToOrganizerCaller ==
  [][(result'.op = "createEvent" /\ result'.out # "not run")
       => LET caller == users[FindIndexById(users, result'.token.userId)]
          IN IF caller.role = "organizer"
               THEN /\ response'.status = 201
                    /\ Len(events') = Len(events) + 1
                    /\ events'[Len(events')].organizerId = caller.id
                    /\ SubSeq(events', 1, Len(events)) = events
               ELSE /\ response'.status = 403
                    /\ UNCHANGED <<events, eventsFile>>]_vars

\* C25 witness: an attendee was refused with 403.
C25_Witness ==
  /\ result.op = "createEvent" /\ response.status = 403
  /\ \E i \in 1..Len(users) : users[i].id = result.token.userId /\ users[i].role = "attendee"

\* C25 witness of the other case: an organizer created an event.
C25_WitnessCreated ==
  /\ result.op = "createEvent" /\ response.status = 201
  /\ \E i \in 1..Len(events) : events[i].organizerId = result.token.userId

(***************************************************************************)
(* PUT /users/change-password: authenticateToken, validateChangePassword,  *)
(* changePassword.                                                         *)
(***************************************************************************)
\* The passwords that are tried and the one that is changed to
TriedPasswords == Passwords \cup {"pw2"}

HttpChangePassword(token, currentPassword, newPassword) ==
  LET i == FindIndexById(users, token.userId)
      compared == ComparePassword(users[i], currentPassword)
      out == IF AuthenticateToken(token) # NoResponse THEN "not run" ELSE compared
  IN /\ result' = [op |-> "changePassword", out |-> out, token |-> token,
                   currentPassword |-> currentPassword, newPassword |-> newPassword]
     /\ IF out = "match"
          THEN /\ users' = ReplaceAt(users, i, [users[i] EXCEPT !.password = BcryptHash(newPassword),
                                                                 !.updatedAt = Now])
               /\ usersFile' = SaveUsers(users', "written")
          ELSE UNCHANGED <<users, usersFile>>
     /\ response' = CASE out = "not run" -> AuthenticateToken(token)
                      [] out = "throws" -> Response(500, "Illegal arguments: string, undefined", "")
                      [] out = "mismatch" -> Response(401, "Current password is incorrect", "")
                      [] OTHER -> Response(200, "", "Password changed successfully")
     /\ UNCHANGED <<nextUserId, creating, issued, reqs, now>>

\* Passwords and logins, with restarts of the process.
PasswordsNext ==
  \/ \E d \in UserInputs : HttpRegister(d) /\ UNCHANGED eventVars
  \/ \E e \in Emails, pw \in TriedPasswords : HttpLogin(e, pw) /\ UNCHANGED eventVars
  \/ \E t \in issued, cur \in TriedPasswords :
       HttpChangePassword(t, cur, "pw2") /\ UNCHANGED eventVars
  \/ UserStoreRestart /\ UNCHANGED <<eventVars, httpVars>>

SpecPasswords == Init /\ [][PasswordsNext]_vars

\* C26: a changePassword that answers 200 leaves the account so that login
\* with the new password answers 200 and with every other password 401; a
\* changePassword whose current password is not the user's (nobody's password
\* is 'bad') answers 401 and leaves the users, and so every login, as before.
C26_ChangePasswordSwitchesLogin ==
  [][(result'.op = "changePassword" /\ result'.out # "not run")
       => LET email == users[FindIndexById(users, result'.token.userId)].email
          IN /\ response'.status = 200
                  => /\ LoginResponse(users', email, result'.newPassword).status = 200
                     /\ \A old \in TriedPasswords \ {result'.newPassword} :
                          LoginResponse(users', email, old).status = 401
             /\ result'.currentPassword = "bad"
                  => /\ response'.status = 401
                     /\ users' = users]_vars

\* The same, for the users whose password hash is in memory: the property of
\* the handler where the process has not restarted since they registered.
C26_WithHashInMemory ==
  [][(/\ result'.op = "changePassword" /\ result'.out # "not run"
      /\ Has(users[FindIndexById(users, result'.token.userId)], "password"))
       => LET email == users[FindIndexById(users, result'.token.userId)].email
          IN /\ response'.status = 200
                  => /\ LoginResponse(users', email, result'.newPassword).status = 200
                     /\ \A old \in TriedPasswords \ {result'.newPassword} :
                          LoginResponse(users', email, old).status = 401
             /\ result'.currentPassword = "bad"
                  => /\ response'.status = 401
                     /\ users' = users]_vars

(***************************************************************************)
(* The bodies of the responses that describe users, as res.json writes     *)
(* them (JSON.stringify calls toJSON of the user).                         *)
(***************************************************************************)
\* register, with data.user of its 201 response
HttpRegisterReply(body) ==
  /\ UserStoreCreate(
       [email |-> ToLowerCase(body.email), password |-> body.password,
        firstName |-> body.firstName, lastName |-> body.lastName,
        role |-> IF Has(body, "role") THEN body.role ELSE "attendee"], "written")
  /\ response' = IF result'.out = "ok"
                   THEN [status |-> 201, error |-> "", message |-> "User registered successfully",
                         user |-> UserToJSON(users'[Len(users')])]
                   ELSE Response(409, "Email already exists", "")
  /\ UNCHANGED <<issued, reqs>>

\* login, with data.user of its 200 response
HttpLoginReply(email, password) ==
  /\ Cardinality(issued) < MaxTokens
  /\ response' = IF LoginResponse(users, email, password).status = 200
                   THEN [status |-> 200, error |-> "", message |-> "Login successful",
                         user |-> UserToJSON(users[FindByEmail(users, ToLowerCase(email))])]
                   ELSE LoginResponse(users, email, password)
  /\ issued' = IF response'.status = 200
                 THEN issued \cup {GenerateToken(users[FindByEmail(users, ToLowerCase(email))])}
                 ELSE issued
  /\ result' = Res("login", "ok")
  /\ UNCHANGED <<userVars, reqs, now>>

\* getProfile behind authenticateToken, with data.user of its response
HttpGetProfileReply(token) ==
  /\ response' =
       IF AuthenticateToken(token) # NoResponse THEN AuthenticateToken(token)
       ELSE [status |-> 200, error |-> "", message |-> "Profile retrieved successfully",
             user |-> UserToJSON(users[FindIndexById(users, token.userId)])]
  /\ result' = HttpRes("getProfile", IF AuthenticateToken(token) = NoResponse THEN "ok" ELSE "not run", token)
  /\ UNCHANGED <<userVars, issued, reqs, now>>

\* getAllUsers behind authenticateToken: GET /users/users, with data.users
HttpGetAllUsers(token) ==
  /\ response' =
       IF AuthenticateToken(token) # NoResponse THEN AuthenticateToken(token)
       ELSE IF users[FindIndexById(users, token.userId)].role # "organizer"
         THEN Response(403, "Access denied", "")
       ELSE [status |-> 200, error |-> "", message |-> "Users retrieved successfully",
             users |-> [i \in 1..Len(users) |->
                          [id |-> users[i].id, email |-> users[i].email,
                           firstName |-> users[i].firstName, lastName |-> users[i].lastName,
                           role |-> users[i].role, isActive |-> users[i].isActive,
                           createdAt |-> DateValueToJSON(users[i].createdAt)]]]
  /\ result' = HttpRes("getAllUsers", IF AuthenticateToken(token) = NoResponse THEN "ok" ELSE "not run", token)
  /\ UNCHANGED <<userVars, issued, reqs, now>>

BodiesNext ==
  \/ \E d \in UserInputs : HttpRegisterReply(d) /\ UNCHANGED eventVars
  \/ \E e \in Emails, pw \in TriedPasswords : HttpLoginReply(e, pw) /\ UNCHANGED eventVars
  \/ \E t \in issued : HttpGetProfileReply(t) /\ UNCHANGED eventVars
  \/ \E t \in issued : HttpGetAllUsers(t) /\ UNCHANGED eventVars
  \/ \E t \in issued, cur \in TriedPasswords :
       HttpChangePassword(t, cur, "pw2") /\ UNCHANGED eventVars

SpecBodies == Init /\ [][BodiesNext]_vars

\* The users that the body of the last response describes.
DescribedUsers ==
  IF Has(response, "user") THEN {response.user}
  ELSE IF Has(response, "users") THEN { response.users[i] : i \in 1..Len(response.users) }
  ELSE {}

\* C27: no response has a password property, at the top or in a user it
\* describes.
C27_NoPasswordInResponses ==
  /\ ~Has(response, "password")
  /\ \A u \in DescribedUsers : ~Has(u, "password")

\* C27 witness: a response describes a user whose password hash is in the
\* store.
C27_Witness ==
  \E u \in DescribedUsers, i \in 1..Len(users) :
    users[i].id = u.id /\ Has(users[i], "password") /\ users[i].password[1] = "bcrypt"

\* C27 witness for the list of getAllUsers.
C27_WitnessList ==
  Has(response, "users") /\ Len(response.users) >= 2

\* C28: UserStore.create with an e-mail that a stored user holds, ignoring
\* case, throws 'Email already exists' and leaves the collection and the
\* snapshot as they were.
C28_DuplicateCreateRejected ==
  [][\A d \in UserInputs :
       ( /\ result'.op = "UserStore.create"
         /\ \E j \in 1..Len(users) : ToLowerCase(users[j].email) = ToLowerCase(d.email)
         /\ UserStoreCreate(d, "written") )
       => /\ result'.out = "Email already exists"
          /\ UNCHANGED <<users, usersFile>>]_vars

\* C28 witness: a create was refused by a store whose only user holds 'A@x'.
C28_Witness ==
  /\ result = Res("UserStore.create", "Email already exists")
  /\ \E j \in 1..Len(users) : users[j].email = "A@x"
  /\ Len(users) = 1

\* C29: findByEmail with any spelling of a stored e-mail returns the user
\* who holds that e-mail.
C29_FindByEmailAnyCase ==
  [][result'.op = "UserStore.findByEmail"
       => \A i \in 1..Len(users) :
            ToLowerCase(users[i].email) = ToLowerCase(result'.email)
              => result'.found = users[i].id]_vars

\* C29 witness: the second of two users was found by a spelling that is not
\* the stored one.
C29_Witness ==
  /\ result.op = "UserStore.findByEmail"
  /\ Len(users) = 2
  /\ result.found = users[2].id
  /\ result.email # users[2].email

(***************************************************************************)
(* Startup from a snapshot that may have been damaged while the process    *)
(* was down.                                                               *)
(***************************************************************************)
\* The snapshot file of a store is replaced by text that JSON.parse rejects.
DamageSnapshot(store) ==
  /\ store \in {"events", "users"}
  /\ eventsFile' = IF store = "events" THEN [state |-> "unparsable", data |-> << >>] ELSE eventsFile
  /\ usersFile' = IF store = "users" THEN [state |-> "unparsable", data |-> << >>] ELSE usersFile
  /\ result' = Res("damage", store)
  /\ UNCHANGED <<events, nextEventId, users, nextUserId, creating, now>>

StartupNext ==
  \/ EventStoreCreate(BaseEventInput, "u1", "written") /\ UNCHANGED <<userVars, httpVars>>
  \/ \E id \in EventIds : EventStoreRegisterParticipant(id, "u2", "written") /\ UNCHANGED <<userVars, httpVars>>
  \/ \E d \in { x \in UserInputs : ~Has(x, "role") } :
       UserStoreCreate(d, "written") /\ UNCHANGED <<eventVars, httpVars>>
  \/ \E store \in {"events", "users"} : DamageSnapshot(store) /\ UNCHANGED httpVars
  \/ EventStoreRestart /\ UNCHANGED <<userVars, httpVars>>
  \/ UserStoreRestart /\ UNCHANGED <<eventVars, httpVars>>

SpecStartup == Init /\ [][StartupNext]_vars

\* C30: a store constructed while its snapshot is absent or unparsable is
\* empty and the construction returns; constructed from a parsable snapshot
\* it holds one entity per record, in the order of the records, with every
\* recorded property (the three dates of an event as Dates of the recorded
\* instant).
C30_StartupFromSnapshot ==
  [][/\ result'.op = "EventStore.restart"
          => /\ result'.out = "ok"
             /\ eventsFile.state # "json" => events' = << >>
             /\ eventsFile.state = "json"
                  => /\ Len(events') = Len(eventsFile.data)
                     /\ \A i \in 1..Len(eventsFile.data) :
                          /\ DOMAIN events'[i] = DOMAIN eventsFile.data[i]
                          /\ \A f \in DOMAIN eventsFile.data[i] :
                               IF f \in {"date", "createdAt", "updatedAt"}
                                 THEN events'[i][f] = DateOf(eventsFile.data[i][f].ms)
                                 ELSE events'[i][f] = eventsFile.data[i][f]
     /\ result'.op = "UserStore.restart"
          => /\ result'.out = "ok"
             /\ usersFile.state # "json" => users' = << >>
             /\ usersFile.state = "json" => users' = usersFile.data]_vars

\* C30 witness: a store that held an event started empty from an unparsable
\* snapshot.
C30_Witness ==
  /\ result.op = "EventStore.restart"
  /\ eventsFile.state = "unparsable"
  /\ events = << >>
  /\ nextEventId > 1

\* C30 witness of the other case: two users were loaded from a snapshot.
C30_WitnessLoaded ==
  /\ result.op = "UserStore.restart"
  /\ usersFile.state = "json"
  /\ Len(users) = 2

(***************************************************************************)
(* What the stores' operations leave alone.                                *)
(***************************************************************************)
\* updateData of Event.update that names, next to maxParticipants, the
\* properties update does not list.
FrameEventPatches ==
  { [id |-> 9, organizerId |-> "u2", maxParticipants |-> c] : c \in {NullInt, 1} }

\* updateData of User.update: every patch names id and role next to some of
\* firstName, lastName and email.
FrameUserPatches ==
  { [id |-> "u3", role |-> "organizer"] @@ p :
      p \in { [firstName |-> "Bob"], [lastName |-> "Ray"], [email |-> "b@x"],
              [firstName |-> "Bob", email |-> "A@x"] } }

\* userData of an attendee and of an organizer
FrameUserInputs ==
  { d \in UserInputs : d.email = "a@x" \/ Has(d, "role") }

\* Both stores, called with patches that name the properties update must
\* not touch; the UserStore is also constructed anew from its snapshot.
FramesNext ==
  \/ EventStoreCreate(BaseEventInput, "u1", "written") /\ UNCHANGED <<userVars, httpVars>>
  \/ \E id \in EventIds, p \in FrameEventPatches :
       EventStoreUpdate(id, p, "u1", "written") /\ UNCHANGED <<userVars, httpVars>>
  \/ \E id \in EventIds : EventStoreDelete(id, "u1", "written") /\ UNCHANGED <<userVars, httpVars>>
  \/ \E id \in EventIds :
       EventStoreRegisterParticipant(id, "u2", "written") /\ UNCHANGED <<userVars, httpVars>>
  \/ \E id \in EventIds :
       EventStoreUnregisterParticipant(id, "u2", "written") /\ UNCHANGED <<userVars, httpVars>>
  \/ \E d \in FrameUserInputs : UserStoreCreate(d, "written") /\ UNCHANGED <<eventVars, httpVars>>
  \/ \E id \in UsedUserIds, p \in { q \in FrameUserPatches : DOMAIN q = {"id", "role", "firstName"} } :
       UserStoreUpdate(id, p, "written") /\ UNCHANGED <<eventVars, httpVars>>
  \/ \E id \in UsedUserIds : UserStoreDelete(id, "written") /\ UNCHANGED <<eventVars, httpVars>>
  \/ UserStoreRestart /\ UNCHANGED <<eventVars, httpVars>>

SpecFrames == Init /\ [][FramesNext]_vars

\* The id with the organizerId of every event, in the order of the collection.
EventIdentities(evs) == [i \in 1..Len(evs) |-> <<evs[i].id, evs[i].organizerId>>]

\* The id with the role of every user, in the order of the collection.
UserIdentities(us) == [i \in 1..Len(us) |-> <<us[i].id, us[i].role>>]

\* C31: no operation of a store changes the id or the organizerId of an event
\* that stays in the collection, or the id or the role of a user that stays:
\* an update whose patch names these properties leaves them as they were, and
\* across every other step an entity found under its id afterwards has the
\* organizerId (the role) it had before.
C31_IdentityFieldsNeverChange ==
  [][/\ result'.op \in {"EventStore.update", "EventStore.registerParticipant",
                        "EventStore.unregisterParticipant"}
          => EventIdentities(events') = EventIdentities(events)
     /\ result'.op \in {"UserStore.update", "UserStore.restart"}
          => UserIdentities(users') = UserIdentities(users)
     /\ \A i \in 1..Len(events), j \in 1..Len(events') :
          events'[j].id = events[i].id => events'[j].organizerId = events[i].organizerId
     /\ \A i \in 1..Len(users), j \in 1..Len(users') :
          users'[j].id = users[i].id => users'[j].role = users[i].role]_vars

\* C31 witness: an update whose patch named id and organizerId was applied to
\* an event (the cap of the patch is in place), and the event has the id and
\* the organizer it was created with.
C31_Witness ==
  /\ result = Res("EventStore.update", "ok")
  /\ Len(events) = 1
  /\ events[1].maxParticipants = 1
  /\ events[1].id # 9
  /\ events[1].organizerId = "u1"

\* C31 witness for users: an update whose patch named id and role was applied
\* to an attendee (the first name of the patch is in place).
C31_WitnessUser ==
  /\ result = Res("UserStore.update", "ok")
  /\ \E i \in 1..Len(users) :
       users[i].firstName = "Bob" /\ users[i].role = "attendee" /\ users[i].id # "u3"

\* The UserStore alone, updated with patches that name one or two of the
\* properties update lists next to two it does not list.
ProfilesNext ==
  \/ \E d \in UserInputs : UserStoreCreate(d, "written") /\ UNCHANGED <<eventVars, httpVars>>
  \/ \E id \in UsedUserIds, p \in FrameUserPatches :
       UserStoreUpdate(id, p, "written") /\ UNCHANGED <<eventVars, httpVars>>
  \/ \E id \in UsedUserIds : UserStoreDelete(id, "written") /\ UNCHANGED <<eventVars, httpVars>>
  \/ UserStoreRestart /\ UNCHANGED <<eventVars, httpVars>>
  \/ Tick /\ UNCHANGED <<eventVars, userVars, httpVars>>

SpecProfiles == Init /\ [][ProfilesNext]_vars

\* C32: an update that returns changes one user and no other: of that user,
\* firstName, lastName and email take the value of the patch where the patch
\* has one and keep theirs where it has none, updatedAt becomes the current
\* instant, and every other property (id, password, role, createdAt,
\* isActive) is as it was; an update that throws changes nothing.
C32_UpdateChangesOnlyPatchedFields ==
  [][result'.op = "UserStore.update"
       => IF result'.out = "ok"
            THEN /\ Len(users') = Len(users)
                 /\ \E i \in 1..Len(users), p \in FrameUserPatches :
                      /\ \A j \in 1..Len(users) : j # i => users'[j] = users[j]
                      /\ DOMAIN users'[i] = DOMAIN users[i]
                      /\ \A f \in DOMAIN users[i] :
                           users'[i][f] =
                             IF f = "updatedAt" THEN Now
                             ELSE IF f \in {"firstName", "lastName", "email"} /\ Has(p, f) THEN p[f]
                             ELSE users[i][f]
            ELSE users' = users]_vars

\* C32 witness: of two users one was updated after time had passed, with the
\* patch that names lastName, and has the role it was created with.
C32_Witness ==
  /\ result = Res("UserStore.update", "ok")
  /\ Len(users) = 2
  /\ \E i \in 1..2 :
       /\ users[i].lastName = "Ray"
       /\ users[i].firstName = "Ann"
       /\ users[i].role = "attendee"
       /\ users[i].updatedAt = DateOf(1)
       /\ users[i].createdAt = DateOf(0)

\* C32 witness of a patch with two listed properties: first name and e-mail
\* were replaced together.
C32_WitnessTwoFields ==
  /\ result = Res("UserStore.update", "ok")
  /\ \E i \in 1..Len(users) : users[i].firstName = "Bob" /\ users[i].email = "A@x"

(***************************************************************************)
(* An event and its reloaded copy, given the same calls.                   *)
(***************************************************************************)
MaxCalls == 2       \* calls applied to an event and to its reloaded copy

\* The calls of the EventStore that act on one event of the collection.
EventCalls ==
  { [op |-> o, userId |-> u] : o \in {"registerParticipant", "unregisterParticipant"}, u \in CallerIds }
  \cup { [op |-> "update", userId |-> "u1", updateData |-> p] : p \in EventPatches }
  \cup { [op |-> "update", userId |-> "u2", updateData |-> [maxParticipants |-> 1]] }

\* What EventStore.registerParticipant, unregisterParticipant or update
\* returns or throws when the event it finds is this one.
CallOutcome(event, call) ==
  CASE call.op = "registerParticipant" -> AddParticipantOutcome(event, call.userId)
    [] call.op = "unregisterParticipant" -> RemoveParticipantOutcome(event, call.userId)
    [] call.op = "update" ->
         IF event.organizerId # call.userId
           THEN "Unauthorized: Only the event organizer can update this event"
           ELSE "ok"

\* The event after the call.
CallEffect(event, call) ==
  CASE call.op = "registerParticipant" -> AddParticipant(event, call.userId)
    [] call.op = "unregisterParticipant" -> RemoveParticipant(event, call.userId)
    [] call.op = "update" ->
         IF CallOutcome(event, call) = "ok" THEN EventUpdate(event, call.updateData) ELSE event

\* Two events on which every sequence of at most n calls is seen alike: each
\* call returns or throws the same, and leaves the same participants, the
\* same participant count and the same available spots.
RECURSIVE Alike(_, _, _)
Alike(a, b, n) ==
  \/ n = 0
  \/ \A call \in EventCalls :
       LET ea == CallEffect(a, call)
           eb == CallEffect(b, call)
       IN /\ CallOutcome(a, call) = CallOutcome(b, call)
          /\ ea.participants = eb.participants
          /\ GetParticipantCount(ea) = GetParticipantCount(eb)
          /\ GetAvailableSpots(ea) = GetAvailableSpots(eb)
          /\ Alike(ea, eb, n - 1)

\* The EventStore with capped and uncapped events, reloaded from the snapshot
\* its own calls wrote.
CopiesNext ==
  \/ \E d \in {BaseEventInput, BaseEventInput @@ [maxParticipants |-> 1]} :
       EventStoreCreate(d, "u1", "written") /\ UNCHANGED <<userVars, httpVars>>
  \/ \E id \in EventIds, u \in CallerIds :
       EventStoreRegisterParticipant(id, u, "written") /\ UNCHANGED <<userVars, httpVars>>
  \/ \E id \in EventIds, u \in CallerIds :
       EventStoreUnregisterParticipant(id, u, "written") /\ UNCHANGED <<userVars, httpVars>>
  \/ \E id \in EventIds, u \in CallerIds : EventStoreDelete(id, u, "written") /\ UNCHANGED <<userVars, httpVars>>
  \/ EventStoreRestart /\ UNCHANGED <<userVars, httpVars>>

SpecCopies == Init /\ [][CopiesNext]_vars

\* C33: the events a restart loads from the snapshot behave as the events
\* they were saved from: every sequence of at most MaxCalls calls of
\* registerParticipant, unregisterParticipant and update gives, call by call,
\* the same outcome (return or error message), the same participants, the
\* same participant count and the same available spots on the loaded event as
\* on the original.
C33_ReloadedEventBehavesAlike ==
  [][result'.op = "EventStore.restart"
       => /\ Len(events') = Len(events)
          /\ \A i \in 1..Len(events) : Alike(events'[i], events[i], MaxCalls)]_vars

\* C33 witness: a restart loaded an event that is full and carries the
\* participantCount and availableSpots the snapshot recorded for it: a
\* registration is refused and an unregistration frees the slot.
C33_Witness ==
  /\ result.op = "EventStore.restart"
  /\ Len(events) >= 1
  /\ Has(events[1], "participantCount")
  /\ events[1].maxParticipants = 1
  /\ events[1].participants = <<"u2">>
  /\ CallOutcome(events[1], [op |-> "registerParticipant", userId |-> "u1"]) = "Event is full"
  /\ GetAvailableSpots(CallEffect(events[1], [op |-> "unregisterParticipant", userId |-> "u2"])) = 1

(***************************************************************************)
(* Events and the users they name.                                         *)
(***************************************************************************)
\* The ids of the users in the collection.
StoredUserIds == { users[i].id : i \in 1..Len(users) }

\* Both stores, the EventStore called as the controllers call it (the
\* organizer and the registrant are users of the UserStore), and users
\* deleted from the UserStore.
RefsNext ==
  \/ \E d \in FrameUserInputs : UserStoreCreate(d, "written") /\ UNCHANGED <<eventVars, httpVars>>
  \/ \E o \in StoredUserIds :
       EventStoreCreate(BaseEventInput, o, "written") /\ UNCHANGED <<userVars, httpVars>>
  \/ \E id \in EventIds, u \in StoredUserIds :
       EventStoreRegisterParticipant(id, u, "written") /\ UNCHANGED <<userVars, httpVars>>
  \/ \E id \in EventIds, u \in StoredUserIds :
       EventStoreUnregisterParticipant(id, u, "written") /\ UNCHANGED <<userVars, httpVars>>
  \/ \E id \in UsedUserIds : UserStoreDelete(id, "written") /\ UNCHANGED <<eventVars, httpVars>>

SpecRefs == Init /\ [][RefsNext]_vars

\* C34: the organizerId of every event and every id among its participants
\* is the id of a user in the UserStore.
C34_EventsNameStoredUsers ==
  \A i \in 1..Len(events) :
    /\ events[i].organizerId \in StoredUserIds
    /\ \A k \in 1..Len(events[i].participants) : events[i].participants[k] \in StoredUserIds

\* Every step other than a deletion of a user keeps the references of C34
\* resolved.
C34_OnlyUserDeletionBreaksReferences ==
  [][result'.op # "UserStore.delete" /\ C34_EventsNameStoredUsers
       => C34_EventsNameStoredUsers']_vars

(***************************************************************************)
(* Notifications (src/utils/emailService.js).  sendWelcomeEmail and        *)
(* sendEventRegistrationEmail are async functions: whatever they throw     *)
(* rejects the promise they return.  The promise is either still pending   *)
(* when the handler has sent its response, or rejected already.            *)
(***************************************************************************)
MailStates == {"pending", "rejected"}

\* Mutant: the handler awaits the notification without catching its error,
\* and the error handler answers 500.
AwaitMail(resp, mail) ==
  IF mail = "rejected" THEN Response(500, "Internal Server Error", "") ELSE resp

\* The response of a handler that called send...Email(...).catch(log): the
\* promise is not awaited and its rejection ends in the catch callback.
CatchMailError(resp, mail) == resp

\* The request whose handler has answered resp and whose notification is mail.
NotifyingReq(userId, eventId, resp, mail) ==
  [state |-> "notifying", userId |-> userId, eventId |-> eventId, racing |-> FALSE,
   verdict |-> "", response |-> resp, mail |-> mail]

\* register: POST /users/register, with the welcome e-mail it starts
HttpRegisterNotifying(r, body, mail) ==
  /\ reqs[r].state = "idle"
  /\ UserStoreCreate(
       [email |-> ToLowerCase(body.email), password |-> body.password,
        firstName |-> body.firstName, lastName |-> body.lastName,
        role |-> IF Has(body, "role") THEN body.role ELSE "attendee"], "written")
  /\ IF result'.out = "ok"
       THEN /\ response' = CatchMailError(Response(201, "", "User registered successfully"), mail)
            /\ reqs' = [reqs EXCEPT ![r] = NotifyingReq(users'[Len(users')].id, 0, response', mail)]
       ELSE /\ response' = Response(409, "Email already exists", "")
            /\ UNCHANGED reqs
  /\ UNCHANGED issued

\* registerForEvent: POST /events/:id/register by the authenticated user
\* userId, with the confirmation e-mail it starts
HttpRegisterForEventNotifying(r, userId, id, mail) ==
  /\ reqs[r].state = "idle"
  /\ EventStoreRegisterParticipant(id, userId, "written")
  /\ IF result'.out = "ok"
       THEN /\ response' = CatchMailError(RegisterForEventResponse("ok"), mail)
            /\ reqs' = [reqs EXCEPT ![r] = NotifyingReq(userId, id, response', mail)]
       ELSE /\ response' = RegisterForEventResponse(result'.out)
            /\ UNCHANGED reqs
  /\ UNCHANGED <<userVars, issued>>

\* The notification of request r settles: a pending one is sent or rejected,
\* and the catch callback of a rejected one logs the error.
MailSettles(r, outcome) ==
  /\ reqs[r].state = "notifying"
  /\ outcome \in {"sent", "rejected"}
  /\ reqs[r].mail = "rejected" => outcome = "rejected"
  /\ reqs' = [reqs EXCEPT ![r].state = "done", ![r].mail = outcome]
  /\ result' = [op |-> "sendMail", out |-> outcome, req |-> r]
  /\ UNCHANGED <<eventVars, userVars, issued, response, now>>

NotifyBodies ==
  { [email |-> e, password |-> "pw1", firstName |-> "Ann", lastName |-> "Lee"] : e \in {"a@x", "b@x"} }

NotifyNext ==
  \/ \E r \in ReqIds, b \in NotifyBodies, m \in MailStates : HttpRegisterNotifying(r, b, m) /\ UNCHANGED eventVars
  \/ EventStoreCreate(BaseEventInput @@ [maxParticipants |-> 1], "u1", "written")
       /\ UNCHANGED <<userVars, httpVars>>
  \/ \E r \in ReqIds, u \in StoredUserIds, id \in EventIds, m \in MailStates :
       HttpRegisterForEventNotifying(r, u, id, m)
  \/ \E r \in ReqIds, o \in {"sent", "rejected"} : MailSettles(r, o)
  \/ ForgetRequests

SpecNotify == Init /\ [][NotifyNext]_vars

\* C35: a registration of a user or for an event whose store call succeeded
\* is answered with the success response and has its mutation in the store,
\* whether the notification is pending or already rejected; and when the
\* notification settles afterwards, sent or rejected, the stores, their
\* snapshots and the response the caller received are as they were.
C35_RegistrationIndependentOfMail ==
  [][/\ (result'.op = "UserStore.create" /\ result'.out = "ok")
          => /\ response' = Response(201, "", "User registered successfully")
             /\ Len(users') = Len(users) + 1
             /\ usersFile' = JsonFile(StringifyUsers(users'))
     /\ (result'.op = "EventStore.registerParticipant" /\ result'.out = "ok")
          => /\ response' = Response(200, "", "Successfully registered for the event")
             /\ \E r \in ReqIds :
                  /\ reqs'[r].state = "notifying" /\ reqs[r].state = "idle"
                  /\ \E i \in 1..Len(events') :
                       /\ events'[i].id = reqs'[r].eventId
                       /\ Includes(events'[i].participants, reqs'[r].userId)
             /\ eventsFile' = JsonFile(StringifyEvents(events'))
     /\ result'.op = "sendMail"
          => /\ UNCHANGED <<events, eventsFile, users, usersFile, response>>
             /\ reqs'[result'.req].response = reqs[result'.req].response
             /\ reqs'[result'.req].response.status \in {200, 201}]_vars

\* C35 witness: the welcome e-mail of an answered registration was rejected
\* after the response; the user is stored and the response is the 201.
C35_Witness ==
  /\ result.op = "sendMail"
  /\ result.out = "rejected"
  /\ reqs[result.req].response.status = 201
  /\ reqs[result.req].userId \in StoredUserIds

\* C35 witness for an event: the confirmation e-mail was rejected before the
\* handler answered; the answer is the 200 and the user is a participant.
C35_WitnessEvent ==
  /\ result = Res("EventStore.registerParticipant", "ok")
  /\ response.status = 200
  /\ \E r \in ReqIds :
       /\ reqs[r].state = "notifying"
       /\ reqs[r].mail = "rejected"
       /\ reqs[r].eventId \in EventIds
       /\ Includes(EventOf(reqs[r].eventId).participants, reqs[r].userId)

(***************************************************************************)
(* optionalAuth (src/middleware/auth.js) beside authenticateToken.         *)
(***************************************************************************)
\* process.env.JWT_SECRET of the process that handles a request: set, or not
\* set.
Environments == {"set", "unset"}

\* process.env.JWT_SECRET || 'fallback-secret-key', where JWT.SECRET is
\* process.env.JWT_SECRET || 'fallback-secret-key-change-in-production': the
\* two are the same string when the variable is set, and two different
\* strings when it is not.
OptionalAuthSecret(env) == IF env = "set" THEN JwtSecret ELSE "fallback-secret-key"

\* optionalAuth: req.user as the handlers read it
OptionalAuth(token, env) ==
  IF token = NoToken THEN Anonymous
  ELSE IF JwtVerify(token, OptionalAuthSecret(env)) # "ok" THEN Anonymous
  ELSE IF UserActive(token.userId)
    THEN [id |-> token.userId, role |-> users[FindIndexById(users, token.userId)].role]
  ELSE Anonymous

\* GET /events behind optionalAuth, by a process whose environment is env
HttpGetAllEventsWithToken(token, env) ==
  /\ response' = GetAllEventsResponse(OptionalAuth(token, env))
  /\ result' = [op |-> "optionalAuth", out |-> "ok", token |-> token, env |-> env,
                caller |-> OptionalAuth(token, env)]
  /\ UNCHANGED <<eventVars, userVars, issued, reqs, now>>

OptionalNext ==
  \/ \E d \in UserInputs : HttpRegister(d) /\ UNCHANGED eventVars
  \/ \E e \in Emails, pw \in Passwords : HttpLogin(e, pw) /\ UNCHANGED eventVars
  \/ \E t \in PresentedTokens, env \in Environments : HttpGetAllEventsWithToken(t, env)
  \/ \E t \in PresentedTokens : HttpGetProfile(t) /\ UNCHANGED eventVars
  \/ \E t \in PresentedTokens : HttpDeactivateAccount(t) /\ UNCHANGED eventVars
  \/ Tick /\ UNCHANGED <<eventVars, userVars, httpVars>>

SpecOptional == Init /\ [][OptionalNext]_vars

\* C36: a token for which authenticateToken calls next() with req.user set
\* to user U makes optionalAuth set req.user to U, whether JWT_SECRET is set
\* in the environment or not.
C36_OptionalAuthAgrees ==
  [][(result'.op = "optionalAuth" /\ AuthenticateToken(result'.token) = NoResponse)
       => result'.caller.id = result'.token.userId]_vars

\* With JWT_SECRET set in the environment the two middlewares agree on every
\* token, in both directions.
C36_AgreesWhenSecretSet ==
  [][(result'.op = "optionalAuth" /\ result'.env = "set")
       => (AuthenticateToken(result'.token) = NoResponse
             <=> result'.caller.id = result'.token.userId /\ result'.caller # Anonymous)]_vars

(***************************************************************************)
(* Admission to events that differ in what the counting gate does not      *)
(* read.                                                                   *)
(***************************************************************************)
\* Event data with one slot: scheduled and public, cancelled and private,
\* completed in the past.
AdmissionEventInputs ==
  { BaseEventInput @@ [maxParticipants |-> 1],
    [status |-> "cancelled", isPublic |-> FALSE] @@ BaseEventInput @@ [maxParticipants |-> 1],
    [status |-> "completed", date |-> DateOf(0)] @@ BaseEventInput @@ [maxParticipants |-> 1] }

\* The stores of up to MaxListed such events, all created by u1
AdmissionStores ==
  UNION { { [i \in 1..n |-> NewEvent(d[i], "u1", i)] : d \in [1..n -> AdmissionEventInputs] } :
            n \in 1..MaxListed }

AdmissionInit ==
  /\ now = 1
  /\ events \in AdmissionStores
  /\ eventsFile = JsonFile(StringifyEvents(events))
  /\ nextEventId = Len(events) + 1
  /\ users = << >>
  /\ usersFile = AbsentFile
  /\ nextUserId = 1
  /\ creating = {}
  /\ issued = {}
  /\ reqs = [r \in ReqIds |-> IdleReq]
  /\ response = NoResponse
  /\ result = Res("init", "ok")

\* The organizer of the events, an attendee and another organizer register
\* for the events and unregister.
AdmissionNext ==
  \/ \E c \in AuthenticatedCallers, id \in 1..MaxListed : HttpRegisterForEventAs(c, id)
  \/ \E c \in AuthenticatedCallers, id \in 1..MaxListed :
       EventStoreUnregisterParticipant(id, c.id, "written") /\ UNCHANGED <<userVars, httpVars>>

SpecAdmission == AdmissionInit /\ [][AdmissionNext]_vars

\* An event and a registrant that the gate cannot tell from another event and
\* registrant: same maxParticipants, same participants, and the registrant is
\* among them in both or in neither.
SameForTheGate(e1, u1, e2, u2) ==
  /\ e1.maxParticipants = e2.maxParticipants
  /\ e1.participants = e2.participants
  /\ Includes(e1.participants, u1) <=> Includes(e2.participants, u2)

\* C37: the decision of a registration is the decision that every event with
\* the same maxParticipants and participants gives to every registrant who
\* is a participant of it or not as this one is: whatever the status, the
\* date and the visibility of the two events and the role of the two
\* registrants (the organizer of the event included), and the response has
\* status 200 exactly when that decision is to accept.
C37_DecisionDependsOnCountOnly ==
  [][result'.op = "registerForEvent"
       => \A id \in 1..MaxListed :
            (Exists(id) /\ HttpRegisterForEventAs(result'.caller, id))
              => \A d \in AuthenticatedCallers, j \in 1..Len(events) :
                   SameForTheGate(EventOf(id), result'.caller.id, events[j], d.id)
                     => /\ result'.out = RegisterParticipantOutcome(events[j].id, d.id)
                        /\ response'.status = 200
                             <=> RegisterParticipantOutcome(events[j].id, d.id) = "ok"]_vars

\* C37 witness: an organizer who is not the events' organizer was refused by
\* a full scheduled public event while the store holds a full cancelled
\* private event with the same participants.
C37_Witness ==
  /\ result.op = "registerForEvent"
  /\ result.out = "Event is full"
  /\ result.caller = [id |-> "u3", role |-> "organizer"]
  /\ \E i, j \in 1..Len(events) :
       /\ events[i].status = "scheduled" /\ events[i].isPublic
       /\ events[j].status = "cancelled" /\ ~events[j].isPublic
       /\ events[i].participants = <<"u2">> /\ events[j].participants = <<"u2">>

\* C37 witness of an accepted registration: the organizer of a completed
\* event in the past was admitted to it as an attendee is to a scheduled one.
C37_WitnessAccepted ==
  /\ result.op = "registerForEvent"
  /\ result.out = "ok"
  /\ result.caller.id = "u1"
  /\ \E i, j \in 1..Len(events) :
       /\ events[i].status = "completed" /\ events[i].date.ms < now
       /\ events[i].organizerId = "u1" /\ events[i].participants = <<"u1">>
       /\ events[j].status = "scheduled" /\ events[j].participants = <<"u2">>

(***************************************************************************)
(* POST /users/logout.                                                     *)
(***************************************************************************)
\* The request that logout answered for token, as the client holds it: no
\* handler reads it.
LoggedOutReq(token, resp) ==
  [state |-> "done", userId |-> token.userId, eventId |-> 0, racing |-> FALSE,
   verdict |-> "", response |-> resp, token |-> token]

\* logout behind authenticateToken: POST /users/logout, as request r
HttpLogout(r, token) ==
  /\ IF AuthenticateToken(token) # NoResponse
       THEN /\ response' = AuthenticateToken(token)
            /\ result' = HttpRes("logout", "not run", token)
            /\ UNCHANGED reqs
       ELSE /\ response' = Response(200, "", "Logout successful")
            /\ result' = HttpRes("logout", "ok", token)
            /\ reqs' = [reqs EXCEPT ![r] = LoggedOutReq(token, response')]
  /\ UNCHANGED <<userVars, issued, now>>

LogoutNext ==
  \/ \E d \in FrameUserInputs : HttpRegister(d) /\ UNCHANGED eventVars
  \/ \E e \in {"a@x", "b@x"} : HttpLogin(e, "pw1") /\ UNCHANGED eventVars
  \/ \E t \in PresentedTokens : HttpLogout("r1", t) /\ UNCHANGED eventVars
  \/ \E t \in PresentedTokens : HttpGetProfile(t) /\ UNCHANGED eventVars
  \/ \E t \in PresentedTokens : HttpDeactivateAccount(t) /\ UNCHANGED eventVars
  \/ \E id \in UsedUserIds : UserStoreDelete(id, "written") /\ UNCHANGED <<eventVars, httpVars>>
  \/ Tick /\ UNCHANGED <<eventVars, userVars, httpVars>>

SpecLogout == Init /\ [][LogoutNext]_vars

\* The tokens for which a logout was answered with 200.
LoggedOutTokens ==
  { reqs[r].token : r \in { q \in ReqIds : Has(reqs[q], "token") /\ reqs[q].response.status = 200 } }

\* C38: a logout leaves the users, the events, both snapshots and the issued
\* tokens as they were, and a request to a protected route that carries a
\* token a logout was answered for is authenticated as long as the token has
\* not expired and its user is stored and active.
C38_LogoutKeepsTokenValid ==
  [][/\ result'.op = "logout"
          => UNCHANGED <<events, eventsFile, nextEventId, users, usersFile, nextUserId, issued, now>>
     /\ (/\ result'.op \in {"getProfile", "deactivateAccount", "logout"}
         /\ result'.token \in LoggedOutTokens
         /\ GoodToken(result'.token))
          => result'.out = "ok" /\ response'.status = 200]_vars

\* C38 witness: GET /users/profile was answered 200 for a token after a
\* logout with that token had been answered 200.
C38_Witness ==
  /\ result.op = "getProfile"
  /\ result.out = "ok"
  /\ response.status = 200
  /\ result.token \in LoggedOutTokens

\* C38 witness of the end of the token's validity: after the logout the token
\* was refused because it had expired.
C38_WitnessExpired ==
  /\ result.op = "getProfile"
  /\ result.token \in LoggedOutTokens
  /\ response = Response(401, "Access denied", "Token expired")

====
